---- MODULE Spec2Model ----
(***************************************************************************)
(* A model of the Lance data file reader (rust/src/io/reader.rs): the      *)
(* reader's state after open, and its read operations read_batch,          *)
(* read_range and take over a small file, with the typed array readers     *)
(* (fixed-stride, null, list) and the row-id synthesis.                    *)
(*                                                                         *)
(* Machine words wider than TLC's integers are kept at their real width   *)
(* as big-endian sequences of 16-bit limbs: a u32 / i32 is two limbs, a    *)
(* u64 four.  usize quantities that stay small (row counts,                *)
(* positions, indices) are naturals; a usize that wrapped below zero is    *)
(* kept as its negative representative d - 2^64 |-> d.                     *)
(***************************************************************************)
EXTENDS Integers, Sequences, FiniteSets, TLC

\* ------------------------------------------------------------------ bounds
\* The largest number of batches of a file.
MaxBatches == 2
\* The largest number of rows of one batch.
MaxRows == 2

\* Request parameters range one past every valid row position.
MaxIdx == MaxRows + 1
\* The longest index list of one request.
MaxTake == MaxRows

\* ------------------------------------------------------------ sequences
RECURSIVE Flatten(_)
Flatten(ss) == IF ss = <<>> THEN <<>> ELSE Head(ss) \o Flatten(Tail(ss))

RECURSIVE SumSeq(_)
SumSeq(s) == IF s = <<>> THEN 0 ELSE Head(s) + SumSeq(Tail(s))

SeqMax(s) == CHOOSE m \in {s[k] : k \in 1..Len(s)} : \A k \in 1..Len(s) : s[k] <= m

\* Sequences over S of length at most n.
SeqsUpTo(S, n) == UNION {[1..k -> S] : k \in 0..n}

IsAscending(s) == \A k \in 1..(Len(s) - 1) : s[k] <= s[k + 1]

\* ------------------------------------------------------- machine words
Base == 2 ^ 16
SignBit == 2 ^ 15

\* The two limbs of a natural below 2^31 taken as a 32-bit word.
Word32(n) == <<(n \div Base) % Base, n % Base>>
\* The four limbs of a natural below 2^31 taken as a 64-bit word.
Word64(n) == <<0, 0>> \o Word32(n)

IsNegI32(w) == w[1] >= SignBit

\* Limb-wise sum of two words of equal width: [sum, carry out].
RECURSIVE AddLimbs(_, _)
AddLimbs(a, b) ==
    IF a = <<>> THEN [sum |-> <<>>, carry |-> 0]
    ELSE LET rest == AddLimbs(Tail(a), Tail(b))
             t    == Head(a) + Head(b) + rest.carry
         IN  [sum |-> <<t % Base>> \o rest.sum, carry |-> t \div Base]

\* i32 + i32: the wrapped sum, and whether the true sum left the i32 range.
AddI32(a, b) ==
    LET r == AddLimbs(a, b)
    IN  [val      |-> r.sum,
         overflow |-> IsNegI32(a) = IsNegI32(b) /\ IsNegI32(r.sum) # IsNegI32(a)]

\* u64 + u64: the wrapped sum, and whether the true sum passed 2^64.
AddU64(a, b) ==
    LET r == AddLimbs(a, b)
    IN  [val |-> r.sum, overflow |-> r.carry = 1]

\* `x as u64` of an i32: sign extension.
I32AsU64(w) == (IF IsNegI32(w) THEN <<Base - 1, Base - 1>> ELSE <<0, 0>>) \o w

\* `x << 32` of a u64: the high half is shifted out.
Shl32(w) == <<w[3], w[4], 0, 0>>

\* `v as i32` of a u32: the same 32 bits.
U32AsI32(w) == w

\* `v as i32` of a small usize: the low 32 bits.
UsizeAsI32(n) == Word32(n)

\* ------------------------------------------------------ ReadBatchParams
\* The five variants of ReadBatchParams, as one record shape.
Range(s, e)   == [kind |-> "Range", start |-> s, end |-> e, indices |-> <<>>]
RangeTo(e)    == [kind |-> "RangeTo", start |-> 0, end |-> e, indices |-> <<>>]
RangeFrom(s)  == [kind |-> "RangeFrom", start |-> s, end |-> 0, indices |-> <<>>]
RangeFull     == [kind |-> "RangeFull", start |-> 0, end |-> 0, indices |-> <<>>]
Indices(v)    == [kind |-> "Indices", start |-> 0, end |-> 0, indices |-> v]

\* The index lists of the requests: the ascending ones, and the pairs that
\* are not.
IndexLists(top) ==
    {v \in SeqsUpTo(0..top, MaxTake) : IsAscending(v)}
        \cup {<<a, b>> : a \in 0..top, b \in 0..top}

\* The requests the model issues against one batch.
ParamsSet ==
    {Range(s, e) : s \in 0..MaxIdx, e \in 0..MaxIdx}
        \cup {RangeTo(e) : e \in 0..MaxIdx}
        \cup {RangeFrom(s) : s \in 0..MaxIdx}
        \cup {RangeFull}
        \cup {Indices(v) : v \in IndexLists(MaxIdx)}

\* ----------------------------------------------------------------- schema
\* Field { id, name, logical type, nullable, children }; ids in pre-order.
FieldI    == [id |-> 0, name |-> "i", type |-> "Int64", nullable |-> TRUE, children |-> <<>>]
FieldN    == [id |-> 1, name |-> "n", type |-> "Null", nullable |-> TRUE, children |-> <<>>]
FieldItem == [id |-> 3, name |-> "item", type |-> "Int32", nullable |-> TRUE, children |-> <<>>]
FieldL    == [id |-> 2, name |-> "l", type |-> "List", nullable |-> FALSE,
              children |-> <<FieldItem>>]
FieldLLItem == [id |-> 5, name |-> "item", type |-> "Int32", nullable |-> TRUE,
                children |-> <<>>]
FieldLL   == [id |-> 4, name |-> "ll", type |-> "LargeList", nullable |-> FALSE,
              children |-> <<FieldLLItem>>]

FieldSA   == [id |-> 7, name |-> "a", type |-> "Int64", nullable |-> TRUE, children |-> <<>>]
FieldSLItem == [id |-> 9, name |-> "item", type |-> "Int32", nullable |-> TRUE,
                children |-> <<>>]
FieldSL   == [id |-> 8, name |-> "b", type |-> "List", nullable |-> TRUE,
              children |-> <<FieldSLItem>>]
FieldS    == [id |-> 6, name |-> "s", type |-> "Struct", nullable |-> TRUE,
              children |-> <<FieldSA, FieldSL>>]

\* The schema of the file: a fixed-stride column, a null column, a list column
\* (32-bit offsets), a large-list column (64-bit offsets) and a struct column
\* of a fixed-stride child and a list child.
FileSchema == <<FieldI, FieldN, FieldL, FieldLL, FieldS>>

\* max_field_id + 1: the number of columns of the page table.
NumColumns == FieldSLItem.id + 1

\* The projections a request may name: each column alone, and all of them.
Projections(schema) == {<<schema[k]>> : k \in 1..Len(schema)} \cup {schema}

\* ------------------------------------------------------------ file layout
\* The rows the file stores: global row r (0-based) holds IntValue(r) in
\* column i, a null in column n, the list ListItems(r) in columns l and ll,
\* and the struct {a: StructValue(r), b: ListItems(r)} in column s.
IntValue(r)  == 100 + r
StructValue(r) == 200 + r
ListLen(r)   == (r + 1) % 3
ListItems(r) == [j \in 1..ListLen(r) |-> 1000 + 10 * r + (j - 1)]
\* A cell of a value page that no stored offset refers to.
Junk == 0 - 1

\* batch_offsets of a file whose batches hold rows[1], rows[2], ... rows.
BatchOffsets(rows) == [k \in 1..(Len(rows) + 1) |-> SumSeq(SubSeq(rows, 1, k - 1))]

\* The pages of batch b (1-based here): the values of column i, the offsets of
\* column l (one more than rows, the first being p0) and the items of column l.
IntPage(rows, b) ==
    [k \in 1..rows[b] |-> IntValue(BatchOffsets(rows)[b] + k - 1)]
ListOffsetsPage(rows, b, p0) ==
    [k \in 1..(rows[b] + 1) |->
        p0 + SumSeq([j \in 1..(k - 1) |-> ListLen(BatchOffsets(rows)[b] + j - 1)])]
ItemPage(rows, b, p0) ==
    [k \in 1..p0 |-> Junk]
        \o Flatten([k \in 1..rows[b] |-> ListItems(BatchOffsets(rows)[b] + k - 1)])
StructPage(rows, b) ==
    [k \in 1..rows[b] |-> StructValue(BatchOffsets(rows)[b] + k - 1)]

\* The data pages of one batch as they lie in the file: column i, then the
\* offsets and the items of column l, then those of column ll, then the
\* values of s.a and the offsets and the items of s.b.
BatchPages(rows, b, p0) ==
    IntPage(rows, b) \o ListOffsetsPage(rows, b, p0) \o ItemPage(rows, b, p0)
        \o ListOffsetsPage(rows, b, p0) \o ItemPage(rows, b, p0)
        \o StructPage(rows, b) \o ListOffsetsPage(rows, b, p0) \o ItemPage(rows, b, p0)

\* The position of the first page of batch b.
BatchPosition(rows, b, p0) ==
    SumSeq([c \in 1..(b - 1) |-> Len(BatchPages(rows, c, p0))])

\* PageInfo { position, length }: length counts elements.
PageInfo(rows, b, p0, field_id) ==
    LET at    == BatchPosition(rows, b, p0)
        items == Len(ItemPage(rows, b, p0))
        l     == at + rows[b]
        ll    == l + rows[b] + 1 + items
        sa    == ll + rows[b] + 1 + items
        sb    == sa + rows[b]
    IN  CASE field_id = FieldI.id      -> [position |-> at, length |-> rows[b]]
          [] field_id = FieldN.id      -> [position |-> l, length |-> rows[b]]
          [] field_id = FieldL.id      -> [position |-> l, length |-> rows[b] + 1]
          [] field_id = FieldItem.id   -> [position |-> l + rows[b] + 1, length |-> items]
          [] field_id = FieldLL.id     -> [position |-> ll, length |-> rows[b] + 1]
          [] field_id = FieldLLItem.id -> [position |-> ll + rows[b] + 1, length |-> items]
          [] field_id = FieldSA.id     -> [position |-> sa, length |-> rows[b]]
          [] field_id = FieldSL.id     -> [position |-> sb, length |-> rows[b] + 1]
          [] field_id = FieldSLItem.id -> [position |-> sb + rows[b] + 1, length |-> items]
          [] OTHER                     -> [position |-> 0, length |-> 0]

\* The file: the cells of the object, the page table (field x batch) and the
\* metadata's batch_offsets.
FileOf(rows, p0) ==
    [store         |-> Flatten([b \in 1..Len(rows) |-> BatchPages(rows, b, p0)]),
     page_table    |-> [f \in 0..(NumColumns - 1) |->
                           [b \in 1..Len(rows) |-> PageInfo(rows, b, p0, f)]],
     batch_offsets |-> BatchOffsets(rows)]

\* The batch layouts of the files the model opens: up to MaxBatches batches
\* of MaxRows rows or one fewer.
BatchRows == UNION {[1..k -> (MaxRows - 1)..MaxRows] : k \in 1..MaxBatches}

\* ------------------------------------------------------------------ state
VARIABLES
    store,            \* the cells of the data file
    page_table,       \* FileReader.page_table
    batch_offsets,    \* FileReader.metadata.batch_offsets
    projection,       \* FileReader.projection: the schema of the file
    fragment_id,      \* FileReader.fragment_id, a u64
    with_row_id,      \* FileReader.with_row_id
    overflow_checks,  \* whether the build panics on integer overflow
    req,              \* the last request
    result            \* what the last request returned

vars == <<store, page_table, batch_offsets, projection, fragment_id, with_row_id,
          overflow_checks, req, result>>

reader == <<store, page_table, batch_offsets, projection, fragment_id, overflow_checks>>

\* ----------------------------------------------------------------- arrays
\* An arrow array: its data type, its length, its values (primitive arrays),
\* its offsets and its child array (list arrays).
PrimitiveArray(type, values) ==
    [type |-> type, len |-> Len(values), values |-> values, offsets |-> <<>>,
     children |-> <<>>]
NullArray(n) ==
    [type |-> "Null", len |-> n, values |-> <<>>, offsets |-> <<>>, children |-> <<>>]
NoArray == NullArray(0)

\* Result<ArrayRef>: Ok with the array, an Error::IO or Error::Arrow, or a
\* panic; reads counts the ranged reads issued against the object store.
Ok(arr, reads)    == [status |-> "Ok", arr |-> arr, reads |-> reads]
Err(kind, reads)  == [status |-> kind, arr |-> NoArray, reads |-> reads]

\* PrimitiveArray::value(i), which panics when i is out of bounds.
InBounds(arr, i) == i >= 0 /\ i < arr.len

\* -------------------------------------------------------------- metadata
num_batches == Len(batch_offsets) - 1

\* Metadata::get_offset: the first row of a batch, None past the last batch.
get_offset(batch_id) ==
    IF batch_id >= 0 /\ batch_id < num_batches
    THEN [some |-> TRUE, val |-> batch_offsets[batch_id + 1]]
    ELSE [some |-> FALSE, val |-> 0]

\* Metadata::get_batch_length, and FileReader::num_rows_in_batch over it.
get_batch_length(batch_id) ==
    IF batch_id >= 0 /\ batch_id < num_batches
    THEN [some |-> TRUE, val |-> batch_offsets[batch_id + 2] - batch_offsets[batch_id + 1]]
    ELSE [some |-> FALSE, val |-> 0]

num_rows_in_batch(batch_id) ==
    IF get_batch_length(batch_id).some THEN get_batch_length(batch_id).val ELSE 0

\* Metadata::len: the rows of the file.
file_len == batch_offsets[Len(batch_offsets)]

\* ------------------------------------------------------------ page table
\* PageTable::get(field_id, batch_id): None when either is out of range.
page_table_get(field_id, batch_id) ==
    IF field_id \in DOMAIN page_table /\ (batch_id + 1) \in DOMAIN page_table[field_id]
    THEN [some |-> TRUE, info |-> page_table[field_id][batch_id + 1]]
    ELSE [some |-> FALSE, info |-> [position |-> 0, length |-> 0]]

get_page_info(field, batch_id) == page_table_get(field.id, batch_id)

\* ------------------------------------------------------- fixed-stride read
\* The rows [lo, hi) a range-shaped request selects of a page of `length`.
RangeBounds(params, length) ==
    CASE params.kind = "Range"     -> <<params.start, params.end>>
      [] params.kind = "RangeTo"   -> <<0, params.end>>
      [] params.kind = "RangeFrom" -> <<params.start, length>>
      [] OTHER                     -> <<0, length>>

\* object_reader::read_fixed_stride_array: the elements of the page at
\* `position` that params selects; a request past the page is an IO error.
read_fixed_stride_array(data_type, position, length, params) ==
    IF params.kind = "Indices"
    THEN LET v == params.indices
         IN  IF v = <<>> THEN Ok(PrimitiveArray(data_type, <<>>), 0)
             ELSE IF SeqMax(v) >= length THEN Err("IO", 0)
             ELSE Ok(PrimitiveArray(data_type,
                                    [k \in 1..Len(v) |-> store[position + v[k] + 1]]), 1)
    ELSE LET lo == RangeBounds(params, length)[1]
             hi == RangeBounds(params, length)[2]
         IN  IF hi > length THEN Err("IO", 0)
             ELSE IF lo >= hi THEN Ok(PrimitiveArray(data_type, <<>>), 0)
             ELSE Ok(PrimitiveArray(data_type, SubSeq(store, position + lo + 1, position + hi)), 1)

\* DataTypeExt::is_fixed_stride, over the types of the file's schema.
is_fixed_stride(data_type) == data_type \in {"Int64", "Int32"}

_read_fixed_stride_array(field, batch_id, params) ==
    LET page_info == get_page_info(field, batch_id)
    IN  IF ~page_info.some THEN Err("IO", 0)
        ELSE read_fixed_stride_array(field.type, page_info.info.position,
                                     page_info.info.length, params)

\* ------------------------------------------------------------- null read
\* null_range whose full range stops one row short of the page.
null_range_short(params, length) ==
    CASE params.kind = "Range"     -> <<params.start, params.end>>
      [] params.kind = "RangeFull" -> <<0, length - 1>>
      [] params.kind = "RangeTo"   -> <<0, params.end>>
      [] OTHER                     -> <<params.start, length>>

\* (idx_start, idx_end) of a range-shaped request on a null page.
null_range(params, length) ==
    CASE params.kind = "Range"     -> <<params.start, params.end>>
      [] params.kind = "RangeFull" -> <<0, length>>
      [] params.kind = "RangeTo"   -> <<0, params.end>>
      [] OTHER                     -> <<params.start, length>>

\* length_output counting idx_end as a row of the range.
length_output_inclusive(params, length) ==
    IF params.kind = "Indices"
    THEN IF params.indices = <<>> THEN [status |-> "Ok", val |-> 0]
         ELSE IF SeqMax(params.indices) >= length THEN [status |-> "IO", val |-> 0]
         ELSE [status |-> "Ok", val |-> Len(params.indices)]
    ELSE LET idx_start == null_range(params, length)[1]
             idx_end   == null_range(params, length)[2]
         IN  IF idx_end > length THEN [status |-> "IO", val |-> 0]
             ELSE IF idx_end < idx_start /\ overflow_checks
                  THEN [status |-> "Panic", val |-> 0]
             ELSE [status |-> "Ok", val |-> idx_end - idx_start + 1]

\* length_output of read_null_array: the length of the returned array, an
\* out-of-range error, or a panic where idx_end - idx_start underflows.
length_output(params, length) ==
    IF params.kind = "Indices"
    THEN IF params.indices = <<>> THEN [status |-> "Ok", val |-> 0]
         ELSE IF SeqMax(params.indices) >= length THEN [status |-> "IO", val |-> 0]
         ELSE [status |-> "Ok", val |-> Len(params.indices)]
    ELSE LET idx_start == null_range(params, length)[1]
             idx_end   == null_range(params, length)[2]
         IN  IF idx_end > length THEN [status |-> "IO", val |-> 0]
             ELSE IF idx_end < idx_start /\ overflow_checks
                  THEN [status |-> "Panic", val |-> 0]
             ELSE [status |-> "Ok", val |-> idx_end - idx_start]

read_null_array(field, batch_id, params) ==
    LET page_info == get_page_info(field, batch_id)
    IN  IF ~page_info.some THEN Err("IO", 0)
        ELSE LET out == length_output(params, page_info.info.length)
             IN  IF out.status = "Ok" THEN Ok(NullArray(out.val), 0)
                 ELSE Err(out.status, 0)

\* ------------------------------------------------------------ list arrays
\* GenericListArrayExt::try_new: a list array of offsets.len() - 1 rows over
\* `values`; the array data is validated when built.
list_try_new(data_type, values, offsets) ==
    IF offsets = <<>>
    THEN Err(IF overflow_checks THEN "Panic" ELSE "Arrow", 0)
    ELSE IF offsets[1] < 0 \/ offsets[1] > offsets[Len(offsets)]
            \/ offsets[Len(offsets)] > values.len
    THEN Err("Arrow", 0)
    ELSE Ok([type |-> data_type, len |-> Len(offsets) - 1, values |-> <<>>,
             offsets |-> offsets, children |-> <<values>>], 0)

\* The rows of a list array: row k holds the child values between its offsets.
ListRows(arr) ==
    [k \in 1..arr.len |->
        SubSeq(arr.children[1].values, arr.offsets[k] + 1, arr.offsets[k + 1])]

\* arrow_select::concat::concat over arrays of one type: primitive values and
\* null lengths are appended; a list array contributes the child values its
\* offsets span, its offsets shifted behind those before it; a struct array
\* is concatenated child by child.
RECURSIVE concat(_)
concat(arrs) ==
    IF arrs = <<>> THEN Err("Arrow", 0)
    ELSE LET type == arrs[1].type
         IN  IF type = "Struct"
             THEN Ok([type |-> type,
                      len |-> SumSeq([k \in 1..Len(arrs) |-> arrs[k].len]),
                      values |-> <<>>, offsets |-> <<>>,
                      children |-> [c \in 1..Len(arrs[1].children) |->
                                       concat([k \in 1..Len(arrs) |->
                                                  arrs[k].children[c]]).arr]], 0)
             ELSE IF type \in {"List", "LargeList"}
             THEN LET spans == [k \in 1..Len(arrs) |->
                                  LET a == arrs[k]
                                      c == a.children[1]
                                  IN  [c EXCEPT
                                         !.values = SubSeq(c.values, a.offsets[1] + 1,
                                                           a.offsets[Len(a.offsets)]),
                                         !.len = a.offsets[Len(a.offsets)] - a.offsets[1]]]
                      before(k) == SumSeq([j \in 1..(k - 1) |-> spans[j].len])
                      offs == <<0>> \o Flatten([k \in 1..Len(arrs) |->
                                  [j \in 1..arrs[k].len |->
                                      before(k) + arrs[k].offsets[j + 1] - arrs[k].offsets[1]]])
                  IN  Ok([type |-> type, len |-> Len(offs) - 1, values |-> <<>>,
                          offsets |-> offs, children |-> <<concat(spans).arr>>], 0)
             ELSE Ok([type |-> type,
                      len |-> SumSeq([k \in 1..Len(arrs) |-> arrs[k].len]),
                      values |-> Flatten([k \in 1..Len(arrs) |-> arrs[k].values]),
                      offsets |-> <<>>, children |-> <<>>], 0)

\* Offset the position array by one to include the upper bound of the last
\* element; indices.value(0) panics on an empty index list.
positions_params(params) ==
    CASE params.kind = "Range" ->
           [status |-> "Ok", val |-> Range(params.start, params.end + 1)]
      [] params.kind = "RangeTo" ->
           [status |-> "Ok", val |-> RangeTo(params.end + 1)]
      [] params.kind = "Indices" ->
           IF params.indices = <<>> THEN [status |-> "Panic", val |-> RangeFull]
           ELSE [status |-> "Ok",
                 val |-> Range(params.indices[1],
                               params.indices[Len(params.indices)] + 2)]
      [] OTHER -> [status |-> "Ok", val |-> params]

\* Recompute params so they align with the offset array; every
\* positions.value(i) panics when i is out of bounds, and end - start of a
\* reversed range underflows into a panic or an out-of-bounds index.
value_params(params, positions) ==
    CASE params.kind = "Range" ->
           IF InBounds(positions, 0) /\ params.end >= params.start
              /\ InBounds(positions, params.end - params.start)
           THEN [status |-> "Ok",
                 val |-> Range(positions.values[1],
                               positions.values[params.end - params.start + 1])]
           ELSE [status |-> "Panic", val |-> RangeFull]
      [] params.kind = "RangeTo" ->
           IF InBounds(positions, params.end)
           THEN [status |-> "Ok", val |-> RangeTo(positions.values[params.end + 1])]
           ELSE [status |-> "Panic", val |-> RangeFull]
      [] params.kind = "RangeFrom" ->
           IF InBounds(positions, 0)
           THEN [status |-> "Ok", val |-> RangeFrom(positions.values[1])]
           ELSE [status |-> "Panic", val |-> RangeFull]
      [] params.kind = "RangeFull" ->
           IF InBounds(positions, 0)
           THEN [status |-> "Ok",
                 val |-> Range(positions.values[1], positions.values[positions.len])]
           ELSE [status |-> "Panic", val |-> RangeFull]
      [] OTHER -> [status |-> "Take", val |-> RangeFull]

\* The range of values of each index: positions[i - first_idx] up to
\* positions[i - first_idx + 1]; an index below the first underflows and an
\* index past the fetched window is out of bounds: both panic.
take_ranges(positions, indices) ==
    LET first_idx == indices[1]
        ok(i) == i >= first_idx /\ InBounds(positions, i - first_idx + 1)
    IN  IF \A k \in 1..Len(indices) : ok(indices[k])
        THEN [status |-> "Ok",
              val |-> [k \in 1..Len(indices) |->
                          <<positions.values[indices[k] - first_idx + 1],
                            positions.values[indices[k] - first_idx + 2]>>]]
        ELSE [status |-> "Panic", val |-> <<>>]

\* Range::len of a usize range.
RangeLen(r) == IF r[2] > r[1] THEN r[2] - r[1] ELSE 0

\* The offsets take_list_array builds: 0, then the running sum of the lengths.
take_offsets(ranges) ==
    [k \in 1..(Len(ranges) + 1) |-> SumSeq([j \in 1..(k - 1) |-> RangeLen(ranges[j])])]

\* subtract_scalar(positions, start_position)
subtract_scalar(positions, start_position) ==
    [k \in 1..Len(positions) |-> positions[k] - start_position]

\* The offset type read_array hands read_list_array for a list type.
OffsetType(data_type) == IF data_type = "LargeList" THEN "Int64" ELSE "Int32"

RECURSIVE read_array(_, _, _)
RECURSIVE read_list_array(_, _, _)
RECURSIVE take_list_array(_, _, _, _)
RECURSIVE read_ranges(_, _, _)
RECURSIVE read_children(_, _, _)
RECURSIVE read_struct_array(_, _, _)

\* The loop of take_list_array: one read of the child per range, in order,
\* stopping at the first that fails.
read_ranges(field, batch_id, ranges) ==
    LET collect(one, rest) ==
            IF one.status # "Ok"
            THEN [status |-> one.status, arrs |-> <<>>, reads |-> one.reads]
            ELSE [status |-> rest.status,
                  arrs   |-> IF rest.status = "Ok" THEN <<one.arr>> \o rest.arrs ELSE <<>>,
                  reads  |-> one.reads + rest.reads]
    IN  IF ranges = <<>> THEN [status |-> "Ok", arrs |-> <<>>, reads |-> 0]
        ELSE collect(read_array(field, batch_id, Range(ranges[1][1], ranges[1][2])),
                     read_ranges(field, batch_id, Tail(ranges)))

take_list_array(field, batch_id, positions, indices) ==
    LET build(all_values, offset_arr, reads) ==
            IF all_values.status # "Ok" THEN Err(all_values.status, reads)
            ELSE [list_try_new(field.type, all_values.arr, offset_arr)
                    EXCEPT !.reads = reads]
        of_values(ranges, list_values) ==
            IF list_values.status # "Ok"
            THEN Err(list_values.status, list_values.reads)
            ELSE build(concat(list_values.arrs), take_offsets(ranges), list_values.reads)
        of_ranges(ranges) ==
            IF ranges.status # "Ok" THEN Err(ranges.status, 0)
            ELSE of_values(ranges.val,
                           read_ranges(field.children[1], batch_id, ranges.val))
    IN  of_ranges(take_ranges(positions, indices))

read_list_array(field, batch_id, params) ==
    LET build(positions, value_arrs, reads) ==
            IF value_arrs.status # "Ok"
            THEN Err(value_arrs.status, reads + value_arrs.reads)
            ELSE [list_try_new(field.type, value_arrs.arr,
                               subtract_scalar(positions.values, positions.values[1]))
                    EXCEPT !.reads = reads + value_arrs.reads]
        of_value_params(positions, vp, reads) ==
            IF vp.status = "Take"
            THEN [take_list_array(field, batch_id, positions, params.indices)
                    EXCEPT !.reads = @ + reads]
            ELSE IF vp.status # "Ok" THEN Err(vp.status, reads)
            ELSE build(positions, read_array(field.children[1], batch_id, vp.val), reads)
        of_positions(position_arr) ==
            IF position_arr.status # "Ok" THEN position_arr
            ELSE of_value_params(position_arr.arr,
                                 value_params(params, position_arr.arr),
                                 position_arr.reads)
        of_page(pp, page_info) ==
            IF pp.status # "Ok" THEN Err(pp.status, 0)
            ELSE IF ~page_info.some THEN Err("IO", 0)
            ELSE of_positions(
                     read_fixed_stride_array(OffsetType(field.type),
                                             page_info.info.position,
                                             page_info.info.length, pp.val))
    IN  of_page(positions_params(params), get_page_info(field, batch_id))

\* The loop of read_struct_array: the children are read one after the other
\* with the batch id and the params of the struct, up to the first that fails.
read_children(children, batch_id, params) ==
    LET collect(one, rest) ==
            IF one.status # "Ok"
            THEN [status |-> one.status, arrs |-> <<>>, reads |-> one.reads]
            ELSE [status |-> rest.status,
                  arrs   |-> IF rest.status = "Ok" THEN <<one.arr>> \o rest.arrs ELSE <<>>,
                  reads  |-> one.reads + rest.reads]
    IN  IF children = <<>> THEN [status |-> "Ok", arrs |-> <<>>, reads |-> 0]
        ELSE collect(read_array(children[1], batch_id, params),
                     read_children(Tail(children), batch_id, params))

\* StructArray::from(sub_arrays), which panics on children of unequal length.
StructArray(sub_arrays) ==
    IF \E c \in 1..Len(sub_arrays) : sub_arrays[c].len # sub_arrays[1].len
    THEN Err("Panic", 0)
    ELSE Ok([type |-> "Struct", len |-> sub_arrays[1].len, values |-> <<>>,
             offsets |-> <<>>, children |-> sub_arrays], 0)

read_struct_array(field, batch_id, params) ==
    LET of_children(sub_arrays) ==
            IF sub_arrays.status # "Ok" THEN Err(sub_arrays.status, sub_arrays.reads)
            ELSE [StructArray(sub_arrays.arrs) EXCEPT !.reads = sub_arrays.reads]
    IN  of_children(read_children(field.children, batch_id, params))

read_array(field, batch_id, params) ==
    IF is_fixed_stride(field.type)
    THEN _read_fixed_stride_array(field, batch_id, params)
    ELSE CASE field.type = "Null" -> read_null_array(field, batch_id, params)
           [] field.type = "Struct" -> read_struct_array(field, batch_id, params)
           [] field.type \in {"List", "LargeList"} ->
                read_list_array(field, batch_id, params)
           [] OTHER -> Err("Panic", 0)

\* ----------------------------------------------------------- record batch
\* ArrowField { name, data type, nullable }, the fields of a struct type being
\* its children, and the arrow view of a field and of a schema.
ArrowField(name, data_type, nullable) ==
    [name |-> name, type |-> data_type, nullable |-> nullable, children |-> <<>>]
RECURSIVE ArrowFieldOf(_)
ArrowFieldOf(field) ==
    [ArrowField(field.name, field.type, field.nullable) EXCEPT
        !.children = [c \in 1..Len(field.children) |-> ArrowFieldOf(field.children[c])]]
ArrowSchema(schema) == [k \in 1..Len(schema) |-> ArrowFieldOf(schema[k])]

NoBatch == [schema |-> <<>>, columns |-> <<>>, num_rows |-> 0]
OkBatch(batch, reads)  == [status |-> "Ok", batch |-> batch, reads |-> reads]
ErrBatch(kind, reads)  == [status |-> kind, batch |-> NoBatch, reads |-> reads]

\* RecordBatch::try_new: a batch needs a column, and columns of one length.
record_batch_try_new(schema, columns) ==
    IF columns = <<>> \/ Len(columns) # Len(schema)
       \/ \E k \in 1..Len(columns) : columns[k].len # columns[1].len
    THEN ErrBatch("Arrow", 0)
    ELSE OkBatch([schema |-> schema, columns |-> columns, num_rows |-> columns[1].len], 0)

\* try_with_column putting the new column in front of the batch's own.
try_with_column_first(batch, field, arr) ==
    record_batch_try_new(<<field>> \o batch.schema, <<arr>> \o batch.columns)

\* RecordBatchExt::try_with_column: the batch with one more field and column.
try_with_column(batch, field, arr) ==
    LET new_fields  == Append(batch.schema, field)
        new_columns == Append(batch.columns, arr)
    IN  record_batch_try_new(new_fields, new_columns)

\* compute_row_id without the shift of the fragment id.
compute_row_id_unshifted(fragment, offset) == AddU64(fragment, I32AsU64(offset))

\* ------------------------------------------------------------------ row id
\* Compute row id from `fragment_id` (u64) and the `offset` (i32) of the row
\* in the fragment: (fragment_id << 32) + offset as u64.
compute_row_id(fragment, offset) == AddU64(Shl32(fragment), I32AsU64(offset))

\* The naturals lo, lo + 1, ..., hi - 1.
Interval(lo, hi) == [k \in 1..(hi - lo) |-> lo + k - 1]

\* ids_in_batch of read_batch: the selected rows' positions in the batch, as i32.
ids_in_batch(params, num_rows) ==
    CASE params.kind = "Indices" ->
           [k \in 1..Len(params.indices) |-> U32AsI32(Word32(params.indices[k]))]
      [] params.kind = "Range" ->
           [k \in 1..(params.end - params.start) |-> UsizeAsI32(params.start + k - 1)]
      [] params.kind = "RangeFull" ->
           [k \in 1..num_rows |-> UsizeAsI32(k - 1)]
      [] params.kind = "RangeTo" ->
           [k \in 1..params.end |-> UsizeAsI32(k - 1)]
      [] OTHER ->
           [k \in 1..num_rows |-> UsizeAsI32(params.start + k - 1)]

\* The row-id column: compute_row_id(fragment_id, o + batch_offset) of every
\* id; either addition panics on overflow in a build that checks for it.
row_id_arr(fragment, ids, batch_offset) ==
    LET sums == [k \in 1..Len(ids) |-> AddI32(ids[k], batch_offset)]
        rows == [k \in 1..Len(ids) |-> compute_row_id(fragment, sums[k].val)]
    IN  IF overflow_checks /\ \E k \in 1..Len(ids) : sums[k].overflow \/ rows[k].overflow
        THEN Err("Panic", 0)
        ELSE Ok(PrimitiveArray("UInt64", [k \in 1..Len(ids) |-> rows[k].val]), 0)

RowIdField == ArrowField("_rowid", "UInt64", FALSE)

\* -------------------------------------------------------------- read_batch
\* The reads of the top-level fields, one after the other, up to the first
\* that fails.
RECURSIVE read_fields(_, _, _)
read_fields(fields, batch_id, params) ==
    LET collect(one, rest) ==
            IF one.status # "Ok"
            THEN [status |-> one.status, arrs |-> <<>>, reads |-> one.reads]
            ELSE [status |-> rest.status,
                  arrs   |-> IF rest.status = "Ok" THEN <<one.arr>> \o rest.arrs ELSE <<>>,
                  reads  |-> one.reads + rest.reads]
    IN  IF fields = <<>> THEN [status |-> "Ok", arrs |-> <<>>, reads |-> 0]
        ELSE collect(read_array(fields[1], batch_id, params),
                     read_fields(Tail(fields), batch_id, params))

read_batch(params, schema, batch_id, row_id) ==
    LET append(batch, ids_arr, reads) ==
            IF ids_arr.status # "Ok" THEN ErrBatch(ids_arr.status, reads)
            ELSE [try_with_column(batch, RowIdField, ids_arr.arr) EXCEPT !.reads = reads]
        of_offset(batch, batch_offset, reads) ==
            IF ~batch_offset.some THEN ErrBatch("IO", reads)
            ELSE append(batch,
                        row_id_arr(fragment_id, ids_in_batch(params, batch.num_rows),
                                   Word32(batch_offset.val)),
                        reads)
        of_batch(batch, reads) ==
            IF batch.status # "Ok" THEN ErrBatch(batch.status, reads)
            ELSE IF ~row_id THEN OkBatch(batch.batch, reads)
            ELSE of_offset(batch.batch, get_offset(batch_id), reads)
        of_arrs(arrs) ==
            IF arrs.status # "Ok" THEN ErrBatch(arrs.status, arrs.reads)
            ELSE of_batch(record_batch_try_new(ArrowSchema(schema), arrs.arrs), arrs.reads)
    IN  of_arrs(read_fields(schema, batch_id, params))

\* FileReader::read_batch
FileReader_read_batch(batch_id, params, schema) ==
    read_batch(params, schema, batch_id, with_row_id)

\* -------------------------------------------------- read_range and take
\* The batch holding file row r: the b with batch_offsets[b] <= r <
\* batch_offsets[b + 1]; num_batches for a row past the end of the file.
BatchOf(r) ==
    IF r >= file_len THEN num_batches
    ELSE CHOOSE b \in 0..(num_batches - 1) :
             batch_offsets[b + 1] <= r /\ r < batch_offsets[b + 2]

\* Metadata::range_to_batches: the range cut at the batch boundaries into
\* (batch_id, local range) pairs, from the batch holding range.start on, one
\* for each batch that starts before range.end; a range past the file is an
\* IO error.
range_to_batches(start, end) ==
    IF end > file_len THEN [status |-> "IO", val |-> <<>>]
    ELSE LET visited == {b \in 0..(num_batches - 1) :
                            b >= BatchOf(start) /\ batch_offsets[b + 1] < end}
             first == BatchOf(start)
         IN  [status |-> "Ok",
              val |-> [k \in 1..Cardinality(visited) |->
                         LET b  == first + k - 1
                             lo == IF start > batch_offsets[b + 1]
                                   THEN start ELSE batch_offsets[b + 1]
                             hi == IF end < batch_offsets[b + 2]
                                   THEN end ELSE batch_offsets[b + 2]
                         IN  [batch_id |-> b,
                              range |-> <<lo - batch_offsets[b + 1],
                                          hi - batch_offsets[b + 1]>>]]]

\* Metadata::group_indices_to_batches: the ascending indices grouped by the
\* batch that holds them, in batch order, each rebased to the batch's first row.
group_indices_to_batches(indices) ==
    LET ids == {BatchOf(indices[k]) : k \in 1..Len(indices)}
        nth(k) == CHOOSE b \in ids : Cardinality({c \in ids : c < b}) = k - 1
        base(b) == batch_offsets[IF b < num_batches THEN b + 1 ELSE num_batches + 1]
    IN  [k \in 1..Cardinality(ids) |->
            LET b == nth(k)
                own == SelectSeq(indices, LAMBDA i : BatchOf(i) = b)
            IN  [batch_id |-> b,
                 offsets |-> [j \in 1..Len(own) |-> own[j] - base(b)]]]

\* An array of no rows of a field's type.
RECURSIVE EmptyArray(_)
EmptyArray(field) ==
    IF field.type = "Struct"
    THEN [type |-> field.type, len |-> 0, values |-> <<>>, offsets |-> <<>>,
          children |-> [c \in 1..Len(field.children) |-> EmptyArray(field.children[c])]]
    ELSE IF field.type \in {"List", "LargeList"}
    THEN [type |-> field.type, len |-> 0, values |-> <<>>, offsets |-> <<0>>,
          children |-> <<PrimitiveArray("Int32", <<>>)>>]
    ELSE [type |-> field.type, len |-> 0, values |-> <<>>, offsets |-> <<>>,
          children |-> <<>>]

\* arrow_select::concat::concat_batches: no batches give the empty batch of
\* `schema`; otherwise column k of the result is the concatenation of the
\* batches' k-th columns.  A batch whose schema differs from `schema` is an
\* error in an arrow release that checks it (strict), and loses the columns
\* past those of `schema` in one that does not.
concat_batches(schema, batches, strict) ==
    IF batches = <<>>
    THEN OkBatch([schema |-> schema,
                  columns |-> [k \in 1..Len(schema) |-> EmptyArray(schema[k])],
                  num_rows |-> 0], 0)
    ELSE IF strict /\ \E k \in 1..Len(batches) : batches[k].schema # schema
    THEN ErrBatch("Arrow", 0)
    ELSE LET arrays == [k \in 1..Len(schema) |->
                           concat([j \in 1..Len(batches) |-> batches[j].columns[k]])]
         IN  IF \E k \in 1..Len(schema) : arrays[k].status # "Ok"
             THEN ErrBatch("Arrow", 0)
             ELSE record_batch_try_new(schema, [k \in 1..Len(schema) |-> arrays[k].arr])

\* The order in which n futures polled together complete: the indices of
\* `arrival` that name one of them, then any it does not name, in order.
Completion(arrival, n) ==
    SelectSeq(arrival, LAMBDA i : i \in 1..n)
        \o SelectSeq([k \in 1..n |-> k],
                     LAMBDA i : \A j \in 1..Len(arrival) : arrival[j] # i)

\* StreamExt::buffer_unordered: the outputs in the order of completion.
buffer_unordered(outputs, arrival) ==
    [j \in 1..Len(outputs) |-> outputs[Completion(arrival, Len(outputs))[j]]]

\* StreamExt::buffered: each future's output is kept, as it completes, with
\* the future's place in the stream, and the outputs are yielded by place.
buffered(outputs, arrival) ==
    LET done == {[place |-> Completion(arrival, Len(outputs))[j],
                  output |-> outputs[Completion(arrival, Len(outputs))[j]]] :
                     j \in 1..Len(outputs)}
    IN  [k \in 1..Len(outputs) |-> (CHOOSE d \in done : d.place = k).output]

\* A collector that drops the reads that failed and keeps the others.
RECURSIVE collect_ok(_)
collect_ok(stream) ==
    IF stream = <<>> THEN [status |-> "Ok", batches |-> <<>>, reads |-> 0]
    ELSE [status  |-> "Ok",
          batches |-> (IF stream[1].status = "Ok" THEN <<stream[1].batch>> ELSE <<>>)
                          \o collect_ok(Tail(stream)).batches,
          reads   |-> stream[1].reads + collect_ok(Tail(stream)).reads]

\* TryStreamExt::try_collect: the batches in the order the stream yields
\* them, or the first error in that order.
RECURSIVE try_collect(_)
try_collect(stream) ==
    LET collect(one, rest) ==
            IF one.status # "Ok"
            THEN [status |-> one.status, batches |-> <<>>, reads |-> one.reads]
            ELSE [status |-> rest.status,
                  batches |-> IF rest.status = "Ok" THEN <<one.batch>> \o rest.batches
                              ELSE <<>>,
                  reads |-> one.reads + rest.reads]
    IN  IF stream = <<>> THEN [status |-> "Ok", batches |-> <<>>, reads |-> 0]
        ELSE collect(stream[1], try_collect(Tail(stream)))

\* The per-batch reads of read_range and take, polled together: they complete
\* in the order `arrival`.
read_batches(requests, schema, arrival) ==
    try_collect(buffered([k \in 1..Len(requests) |->
                             FileReader_read_batch(requests[k].batch_id,
                                                   requests[k].params, schema)],
                         arrival))

\* FileReader::read_range: one batch is returned as it is, several are
\* concatenated under the first one's schema; batches[0] of no batch panics.
read_range(start, end, schema, arrival) ==
    LET of_batches(got) ==
            IF got.status # "Ok" THEN ErrBatch(got.status, got.reads)
            ELSE IF Len(got.batches) = 1 THEN OkBatch(got.batches[1], got.reads)
            ELSE IF got.batches = <<>> THEN ErrBatch("Panic", got.reads)
            ELSE [concat_batches(got.batches[1].schema, got.batches, FALSE)
                    EXCEPT !.reads = got.reads]
        of_ranges(range_in_batches) ==
            IF range_in_batches.status # "Ok" THEN ErrBatch(range_in_batches.status, 0)
            ELSE of_batches(read_batches(
                     [k \in 1..Len(range_in_batches.val) |->
                         [batch_id |-> range_in_batches.val[k].batch_id,
                          params   |-> Range(range_in_batches.val[k].range[1],
                                             range_in_batches.val[k].range[2])]],
                     schema, arrival))
    IN  of_ranges(range_to_batches(start, end))

\* take collecting the batches in the reverse of the request order.
take_unordered(indices, schema, strict, arrival) ==
    LET of_batches(got) ==
            IF got.status # "Ok" THEN ErrBatch(got.status, got.reads)
            ELSE [concat_batches(ArrowSchema(schema),
                                 [k \in 1..Len(got.batches) |->
                                     got.batches[Len(got.batches) + 1 - k]], strict)
                    EXCEPT !.reads = got.reads]
        of_groups(indices_in_batches) ==
            of_batches(read_batches(
                [k \in 1..Len(indices_in_batches) |->
                    [batch_id |-> indices_in_batches[k].batch_id,
                     params   |-> Indices(indices_in_batches[k].offsets)]],
                schema, arrival))
    IN  of_groups(group_indices_to_batches(indices))

\* FileReader::take: the indices must be sorted.
take(indices, schema, strict, arrival) ==
    LET of_batches(got) ==
            IF got.status # "Ok" THEN ErrBatch(got.status, got.reads)
            ELSE [concat_batches(ArrowSchema(schema), got.batches, strict)
                    EXCEPT !.reads = got.reads]
        of_groups(indices_in_batches) ==
            of_batches(read_batches(
                [k \in 1..Len(indices_in_batches) |->
                    [batch_id |-> indices_in_batches[k].batch_id,
                     params   |-> Indices(indices_in_batches[k].offsets)]],
                schema, arrival))
    IN  of_groups(group_indices_to_batches(indices))

\* ------------------------------------------------------------- behaviour
\* The fragment id the reader is opened with; SpecRowId below covers the
\* others, 0 and the wide ones included.
FragmentIds == {Word64(123)}

NoReq == [op |-> "none", batch_id |-> 0, params |-> RangeFull, projection |-> <<>>,
          range |-> <<0, 0>>, indices |-> <<>>, arrival |-> <<>>,
          offset |-> Word32(0), batch_offset |-> Word32(0)]

\* FileReader::try_new_with_fragment: the reader over one file.
Init ==
    \E rows \in BatchRows, p0 \in {0, 1} :
        /\ store = FileOf(rows, p0).store
        /\ page_table = FileOf(rows, p0).page_table
        /\ batch_offsets = FileOf(rows, p0).batch_offsets
        /\ projection = FileSchema
        /\ fragment_id \in FragmentIds
        /\ with_row_id = FALSE
        /\ overflow_checks \in BOOLEAN
        /\ req = NoReq
        /\ result = ErrBatch("none", 0)

\* The reader serves one call of its caller at a time: a call is made when
\* the last one has returned (Return), and with_row_id, which borrows the
\* reader mutably, is called only between reads.
Idle == req.op = "none"

\* FileReader::with_row_id
WithRowId ==
    /\ Idle
    /\ \E v \in BOOLEAN :
           /\ with_row_id' = v
           /\ UNCHANGED <<reader, req, result>>

\* A read_batch that consumes the reader's with_row_id setting.
ReadBatchOnce ==
    /\ Idle
    /\ \E batch_id \in 0..num_batches, params \in ParamsSet, schema \in Projections(projection) :
           /\ req' = [NoReq EXCEPT !.op = "read_batch", !.batch_id = batch_id,
                                   !.params = params, !.projection = schema]
           /\ result' = FileReader_read_batch(batch_id, params, schema)
           /\ with_row_id' = FALSE
           /\ UNCHANGED reader

\* FileReader::read_batch
ReadBatch ==
    /\ Idle
    /\ \E batch_id \in 0..num_batches, params \in ParamsSet, schema \in Projections(projection) :
           /\ req' = [NoReq EXCEPT !.op = "read_batch", !.batch_id = batch_id,
                                   !.params = params, !.projection = schema]
           /\ result' = FileReader_read_batch(batch_id, params, schema)
           /\ UNCHANGED <<reader, with_row_id>>

\* FileReader::read_range; the request records the order in which the
\* per-batch reads completed.
ReadRange ==
    /\ Idle
    /\ \E start \in 0..(file_len + 1), end \in 0..(file_len + 1),
          schema \in Projections(projection) :
           /\ start <= end
           /\ \E arrival \in Permutations(1..Len(range_to_batches(start, end).val)) :
                  /\ req' = [NoReq EXCEPT !.op = "read_range", !.range = <<start, end>>,
                                          !.projection = schema, !.arrival = arrival]
                  /\ result' = read_range(start, end, schema, arrival)
           /\ UNCHANGED <<reader, with_row_id>>

\* FileReader::take, for every order in which the per-batch reads complete.
Take ==
    /\ Idle
    /\ \E indices \in SeqsUpTo(0..file_len, MaxTake),
          schema \in Projections(projection),
          strict \in (IF with_row_id THEN BOOLEAN ELSE {FALSE}) :
           /\ IsAscending(indices)
           /\ req' = [NoReq EXCEPT !.op = "take", !.indices = indices,
                                   !.projection = schema]
           /\ \E arrival \in Permutations(1..Len(group_indices_to_batches(indices))) :
                  result' = take(indices, schema, strict, arrival)
           /\ UNCHANGED <<reader, with_row_id>>

\* The caller takes the result; the reader is as it was.
Return ==
    /\ ~Idle
    /\ req' = NoReq
    /\ result' = ErrBatch("none", 0)
    /\ UNCHANGED <<reader, with_row_id>>

Next == WithRowId \/ ReadBatch \/ ReadRange \/ Take \/ Return

Spec == Init /\ [][Next]_vars

\* ------------------------------------------------------ what a request selects
\* Rows and first row of the batch the last request named.
ReqRows == num_rows_in_batch(req.batch_id)
ReqBase == get_offset(req.batch_id).val

\* The batch-local rows a parameter shape selects of a batch of n rows.
Selected(params, n) ==
    CASE params.kind = "Range"     -> Interval(params.start, params.end)
      [] params.kind = "RangeTo"   -> Interval(0, params.end)
      [] params.kind = "RangeFrom" -> Interval(params.start, n)
      [] params.kind = "RangeFull" -> Interval(0, n)
      [] OTHER                     -> params.indices

\* The request stays within a batch (or page) of n rows.
InRangeReq(params, n) ==
    CASE params.kind = "Range"     -> params.start <= params.end /\ params.end <= n
      [] params.kind = "RangeTo"   -> params.end <= n
      [] params.kind = "RangeFrom" -> params.start <= n
      [] params.kind = "RangeFull" -> TRUE
      [] OTHER -> \A k \in 1..Len(params.indices) : params.indices[k] < n

\* (F << 32) | r as a u64, for a fragment id F below 2^32 and a row r.
RowIdOf(F, r) == <<F[3], F[4]>> \o Word32(r)

\* The cells of a column, and the cells the file stores for the given file
\* rows in the column of a field.
RECURSIVE ColumnCells(_)
ColumnCells(arr) ==
    CASE arr.type \in {"List", "LargeList"} -> ListRows(arr)
      [] arr.type = "Null" -> [k \in 1..arr.len |-> "null"]
      [] arr.type = "Struct" ->
            [k \in 1..arr.len |->
                [c \in 1..Len(arr.children) |-> ColumnCells(arr.children[c])[k]]]
      [] OTHER -> arr.values
RECURSIVE StoredCells(_, _)
StoredCells(field, rows) ==
    CASE field.type \in {"List", "LargeList"} -> [k \in 1..Len(rows) |-> ListItems(rows[k])]
      [] field.type = "Null" -> [k \in 1..Len(rows) |-> "null"]
      [] field.type = "Struct" ->
            [k \in 1..Len(rows) |->
                [c \in 1..Len(field.children) |->
                    StoredCells(field.children[c], <<rows[k]>>)[1]]]
      [] field.id = FieldSA.id -> [k \in 1..Len(rows) |-> StructValue(rows[k])]
      [] OTHER -> [k \in 1..Len(rows) |-> IntValue(rows[k])]

\* Column c of a batch is the column of projection[c] holding the given rows.
HoldsRows(batch, schema, rows) ==
    /\ Len(batch.columns) >= Len(schema)
    /\ \A c \in 1..Len(schema) :
           /\ batch.columns[c].type = schema[c].type
           /\ batch.columns[c].len = Len(rows)
           /\ ColumnCells(batch.columns[c]) = StoredCells(schema[c], rows)

\* -------------------------------------------------------------------- C1
\* C1: with with_row_id set, every batch read_batch returns, for any of the
\* five parameter shapes, ends in a column whose i-th value is
\* (F << 32) | (batch_offsets[b] + local_offset_i), local_offset_i being the
\* i-th selected row's position in the batch.
C1_RowIdFormula ==
    (req.op = "read_batch" /\ with_row_id /\ result.status = "Ok") =>
        LET col == result.batch.columns[Len(result.batch.columns)]
            sel == Selected(req.params, ReqRows)
        IN  /\ get_offset(req.batch_id).some
            /\ col.values = [k \in 1..Len(sel) |-> RowIdOf(fragment_id, ReqBase + sel[k])]

C1_Witness ==
    /\ req.op = "read_batch" /\ with_row_id /\ result.status = "Ok"
    /\ req.params.kind = "RangeFrom" /\ req.params.start >= 1
    /\ req.batch_id >= 1
    /\ result.batch.num_rows >= 1

\* -------------------------------------------------------------------- C3
\* C3: a batch returned by read_batch has the projection's columns and, if and
\* only if with_row_id is set, one more: the last, named _rowid, non-nullable
\* UInt64, as long as the batch has rows; and an in-range request whose data
\* columns read successfully still succeeds when the row id is asked for.
C3_RowIdColumn ==
    /\ (req.op = "read_batch" /\ result.status = "Ok") =>
           LET b == result.batch
           IN  /\ Len(b.columns) = Len(b.schema)
               /\ \A k \in 1..Len(b.columns) : b.columns[k].len = b.num_rows
               /\ IF with_row_id
                  THEN /\ b.schema = Append(ArrowSchema(req.projection),
                                            ArrowField("_rowid", "UInt64", FALSE))
                       /\ b.columns[Len(b.columns)].type = "UInt64"
                       /\ Len(b.columns[Len(b.columns)].values) = b.num_rows
                  ELSE /\ b.schema = ArrowSchema(req.projection)
                       /\ \A k \in 1..Len(b.schema) : b.schema[k].name # "_rowid"
    /\ (req.op = "read_batch" /\ with_row_id /\ InRangeReq(req.params, ReqRows)
          /\ read_batch(req.params, req.projection, req.batch_id, FALSE).status = "Ok")
         => result.status = "Ok"

C3_Witness ==
    /\ req.op = "read_batch" /\ with_row_id /\ result.status = "Ok"
    /\ req.projection = FileSchema
    /\ req.params.kind = "Indices"
    /\ result.batch.num_rows >= 2

\* -------------------------------------------------------------------- C4
\* C4: read_batch(b, RangeFull, P) returns what read_batch(b, Range{0, n}, P)
\* returns, n being num_rows_in_batch(b): the same data columns and the same
\* _rowid column when it is requested.
C4_RangeFullIsRange0n ==
    (req.op = "read_batch" /\ req.params = RangeFull) =>
        result = read_batch(Range(0, ReqRows), req.projection, req.batch_id, with_row_id)

C4_Witness ==
    /\ req.op = "read_batch" /\ req.params = RangeFull
    /\ with_row_id /\ result.status = "Ok"
    /\ req.projection = FileSchema
    /\ result.batch.num_rows >= 2

\* -------------------------------------------------------------------- C5
\* The file rows of the last take request all exist.
TakeInFile == \A k \in 1..Len(req.indices) : req.indices[k] < file_len

\* C5: take of ascending indices within the file, in one batch or several,
\* returns one row per index, the stored row at that index, in the order of
\* the indices; without the row id the take succeeds.
C5_TakeInOrder ==
    (req.op = "take" /\ TakeInFile) =>
        /\ ~with_row_id => result.status = "Ok"
        /\ result.status = "Ok" =>
               /\ result.batch.num_rows = Len(req.indices)
               /\ HoldsRows(result.batch, req.projection, req.indices)

C5_Witness ==
    /\ req.op = "take" /\ TakeInFile /\ result.status = "Ok"
    /\ req.projection = FileSchema
    /\ Len(req.indices) >= 2
    /\ BatchOf(req.indices[1]) # BatchOf(req.indices[Len(req.indices)])

\* -------------------------------------------------------------------- C6
\* C6: for any a <= b <= c within the file's rows, a = b and b = c included,
\* read_range(a..c) succeeds, as do read_range(a..b) and read_range(b..c), and
\* it equals the concatenation of the two.
C6_RangeIsConcatOfSubRanges ==
    (req.op = "read_range" /\ req.range[2] <= file_len) =>
        \A b \in req.range[1]..req.range[2] :
            LET left  == read_range(req.range[1], b, req.projection, <<>>)
                right == read_range(b, req.range[2], req.projection, <<>>)
            IN  /\ result.status = "Ok"
                /\ left.status = "Ok"
                /\ right.status = "Ok"
                /\ result.batch = concat_batches(result.batch.schema,
                                                 <<left.batch, right.batch>>, TRUE).batch

\* -------------------------------------------------------------------- C7
\* The last request read one list column of an existing batch.
ListRead ==
    /\ req.op = "read_batch"
    /\ req.projection \in {<<FieldL>>, <<FieldLL>>}
    /\ get_page_info(req.projection[1], req.batch_id).some

\* C7: the offsets of a returned list array start at 0 and end at the length
\* of its values array, for every parameter shape and whatever the first
\* stored offset of the page is.
C7_ListOffsetsSpanValues ==
    (ListRead /\ result.status = "Ok") =>
        LET arr == result.batch.columns[1]
        IN  /\ arr.offsets[1] = 0
            /\ arr.offsets[Len(arr.offsets)] = arr.children[1].len

\* -------------------------------------------------------------------- C8
\* C8: a list read returns one list per selected row, in selection order, the
\* k-th being the stored list of the k-th selected row.
C8_ListRowsAreStoredRows ==
    (ListRead /\ result.status = "Ok" /\ InRangeReq(req.params, ReqRows)) =>
        LET sel == Selected(req.params, ReqRows)
        IN  HoldsRows(result.batch, req.projection,
                      [k \in 1..Len(sel) |-> ReqBase + sel[k]])

\* -------------------------------------------------------------------- C9
\* The last request read the null column of an existing batch.
NullRead ==
    /\ req.op = "read_batch"
    /\ req.projection = <<FieldN>>
    /\ get_page_info(FieldN, req.batch_id).some
NullPageLength == get_page_info(FieldN, req.batch_id).info.length

\* The request reaches past a page of `length` rows, or is a reversed range.
ExceedsPage(params, length) ==
    CASE params.kind = "Indices" ->
           params.indices # <<>> /\ SeqMax(params.indices) >= length
      [] params.kind = "Range" ->
           params.end > length \/ params.start > length \/ params.start > params.end
      [] params.kind = "RangeTo" -> params.end > length
      [] params.kind = "RangeFrom" -> params.start > length
      [] OTHER -> FALSE

\* C9: a read of a null column that exceeds the page is an IO error, for
\* every parameter shape.
C9_NullOutOfRangeIsIO ==
    (NullRead /\ ExceedsPage(req.params, NullPageLength)) => result.status = "IO"

\* ------------------------------------------------------------------- C10
\* The length of the null array of an in-range request on a page of L rows.
NullLength(params, L) ==
    CASE params.kind = "Range"     -> params.end - params.start
      [] params.kind = "RangeTo"   -> params.end
      [] params.kind = "RangeFrom" -> L - params.start
      [] params.kind = "RangeFull" -> L
      [] OTHER                     -> Len(params.indices)

\* C10: an in-range read of a null column returns a null array of e - s, e,
\* L - s, L or as many rows as there are indices, and reads nothing from the
\* object store.
C10_NullLengths ==
    (NullRead /\ InRangeReq(req.params, NullPageLength)) =>
        /\ result.status = "Ok"
        /\ result.batch.columns[1] = NullArray(NullLength(req.params, NullPageLength))
        /\ result.reads = 0

C10_Witness ==
    /\ NullRead /\ InRangeReq(req.params, NullPageLength)
    /\ req.params.kind = "RangeFrom" /\ req.params.start = 1
    /\ NullPageLength = MaxRows
    /\ result.status = "Ok"
    /\ result.batch.num_rows = MaxRows - 1

\* ------------------------------------------------- row ids at full width
\* The row-id computation of read_batch applied to ids and batch offsets of
\* the whole 32-bit range, which no file small enough to enumerate produces.
WideFragmentIds == {<<0, 0, 0, 0>>, <<0, 0, 0, 1>>, <<0, 0, 0, 123>>,
                    <<0, 0, Base - 1, Base - 1>>}
WideOffsets == {Word32(0), Word32(1), Word32(9), <<SignBit - 1, Base - 1>>,
                <<SignBit, 0>>, <<SignBit, 1>>, <<Base - 1, Base - 1>>}
WideBatchOffsets == {Word32(0), Word32(10), <<SignBit - 1, Base - 10>>,
                     <<SignBit - 1, Base - 1>>}

InitRowId ==
    /\ store = FileOf(<<MaxRows>>, 0).store
    /\ page_table = FileOf(<<MaxRows>>, 0).page_table
    /\ batch_offsets = FileOf(<<MaxRows>>, 0).batch_offsets
    /\ projection = FileSchema
    /\ fragment_id \in WideFragmentIds
    /\ with_row_id = TRUE
    /\ overflow_checks \in BOOLEAN
    /\ req = NoReq
    /\ result = Err("none", 0)

\* Lines 320-328 of read_batch for one selected row: the id `offset as i32`,
\* the batch's offset added, and compute_row_id of the sum.
RowId ==
    /\ Idle
    /\ \E offset \in WideOffsets, batch_offset \in WideBatchOffsets :
           /\ req' = [NoReq EXCEPT !.op = "row_id", !.offset = offset,
                                   !.batch_offset = batch_offset]
           /\ result' = row_id_arr(fragment_id, <<U32AsI32(offset)>>, batch_offset)
           /\ UNCHANGED <<reader, with_row_id>>

ReturnRowId ==
    /\ ~Idle
    /\ req' = NoReq
    /\ result' = Err("none", 0)
    /\ UNCHANGED <<reader, with_row_id>>

NextRowId == RowId \/ ReturnRowId

SpecRowId == InitRowId /\ [][NextRowId]_vars


\* -------------------------------------------------------------------- C2
\* C2: the row id of fragment F (below 2^32) and of an intra-fragment offset
\* batch_offset + local offset that fits 32 bits has F in its high 32 bits and
\* the offset in its low 32 bits, also where the offset is 2^31 or more or the
\* sum leaves the i32 range.
C2_RowIdLayout ==
    (req.op = "row_id" /\ AddLimbs(req.offset, req.batch_offset).carry = 0) =>
        /\ result.status = "Ok"
        /\ result.arr.values
             = << <<fragment_id[3], fragment_id[4]>>
                    \o AddLimbs(req.offset, req.batch_offset).sum >>


\* ============================================================ logical types
\* datatypes.rs: the textual logical type of an Arrow data type and back.
\* A string is a sequence of pieces; the piece ":" is the one-character
\* string ":" and no other piece holds a colon, so split(':') cuts a string
\* exactly at its ":" pieces.
Str(piece) == <<piece>>
Colon == <<":">>

\* str::split(':'): the segments between the colons, empty ones included.
RECURSIVE split(_)
split(s) ==
    IF \A i \in DOMAIN s : s[i] # ":"
    THEN <<s>>
    ELSE LET i == CHOOSE i \in DOMAIN s :
                      s[i] = ":" /\ \A j \in 1..(i - 1) : s[j] # ":"
         IN  <<SubSeq(s, 1, i - 1)>> \o split(SubSeq(s, i + 1, Len(s)))

\* The range of an i32.
I32Max == (2 ^ 30 - 1) * 2 + 1
I32Min == 0 - I32Max - 1

\* The numerals the model writes and reads.
Numerals == (0 - 300)..300

\* str::parse::<T>() for an integer type T of range lo..hi.
parse(segment, lo, hi) ==
    IF /\ Len(segment) = 1
       /\ \E n \in Numerals : ToString(n) = segment[1] /\ lo <= n /\ n <= hi
    THEN [ok |-> TRUE,
          val |-> CHOOSE n \in Numerals : ToString(n) = segment[1]]
    ELSE [ok |-> FALSE, val |-> 0]

\* arrow_schema::DataType, TimeUnit and Field as far as the codec reads them.
Simple(kind)           == [kind |-> kind]
Decimal(bits, p, s)    == [kind |-> "Decimal", bits |-> bits, precision |-> p, scale |-> s]
Time32(tu)             == [kind |-> "Time32", unit |-> tu]
Time64(tu)             == [kind |-> "Time64", unit |-> tu]
NoTz                   == [some |-> FALSE, str |-> <<>>]
Tz(str)                == [some |-> TRUE, str |-> str]
Timestamp(tu, tz)      == [kind |-> "Timestamp", unit |-> tu, tz |-> tz]
Duration(tu)           == [kind |-> "Duration", unit |-> tu]
Dictionary(key, value) == [kind |-> "Dictionary", key |-> key, value |-> value]
ItemField(name, dt, nullable) == [name |-> name, data_type |-> dt, nullable |-> nullable]
List(elem)             == [kind |-> "List", elem |-> elem]
LargeList(elem)        == [kind |-> "LargeList", elem |-> elem]
FixedSizeList(elem, len) == [kind |-> "FixedSizeList", elem |-> elem, len |-> len]
FixedSizeBinary(len)   == [kind |-> "FixedSizeBinary", len |-> len]
NoType                 == Simple("none")

TimeUnits == {"Second", "Millisecond", "Microsecond", "Nanosecond"}

\* The data types whose logical type is one fixed word, and that word.
SimpleNames ==
    [Null |-> "null", Boolean |-> "bool", Int8 |-> "int8", UInt8 |-> "uint8",
     Int16 |-> "int16", UInt16 |-> "uint16", Int32 |-> "int32",
     UInt32 |-> "uint32", Int64 |-> "int64", UInt64 |-> "uint64",
     Float16 |-> "halffloat", Float32 |-> "float", Float64 |-> "double",
     Utf8 |-> "string", Binary |-> "binary", LargeUtf8 |-> "large_string",
     LargeBinary |-> "large_binary"]

\* Result<LogicalType> and Result<DataType>.
OkTag(tag)     == [status |-> "Ok", tag |-> tag, dt |-> NoType]
OkType(dt)     == [status |-> "Ok", tag |-> <<>>, dt |-> dt]
ErrType(kind)  == [status |-> kind, tag |-> <<>>, dt |-> NoType]

timeunit_to_str(unit) ==
    CASE unit = "Second"      -> "s"
      [] unit = "Millisecond" -> "ms"
      [] unit = "Microsecond" -> "us"
      [] unit = "Nanosecond"  -> "ns"

\* Err(Error::Arrow) for every word that is not one of the four units.
parse_timeunit(unit) ==
    CASE unit = Str("s")  -> OkType("Second")
      [] unit = Str("ms") -> OkType("Millisecond")
      [] unit = Str("us") -> OkType("Microsecond")
      [] unit = Str("ns") -> OkType("Nanosecond")
      [] OTHER            -> ErrType("Arrow")

\* impl TryFrom<&DataType> for LogicalType.
RECURSIVE LogicalType_try_from(_)
LogicalType_try_from(dt) ==
    LET dict(value, key) ==
            IF value.status # "Ok" THEN value
            ELSE IF key.status # "Ok" THEN key
            ELSE OkTag(Str("dict") \o Colon \o value.tag \o Colon \o key.tag
                           \o Colon \o Str("false"))
        fixed_size_list(inner) ==
            IF inner.status # "Ok" THEN inner
            ELSE OkTag(Str("fixed_size_list") \o Colon \o inner.tag \o Colon
                           \o Str(ToString(dt.len)))
    IN  CASE dt.kind \in DOMAIN SimpleNames -> OkTag(Str(SimpleNames[dt.kind]))
          [] dt.kind = "Decimal" ->
                OkTag(Str("decimal") \o Colon \o Str(ToString(dt.bits)) \o Colon
                          \o Str(ToString(dt.precision)) \o Colon
                          \o Str(ToString(dt.scale)))
          [] dt.kind = "Date32" -> OkTag(Str("date32") \o Colon \o Str("day"))
          [] dt.kind = "Date64" -> OkTag(Str("date64") \o Colon \o Str("ms"))
          [] dt.kind = "Time32" ->
                OkTag(Str("time32") \o Colon \o Str(timeunit_to_str(dt.unit)))
          [] dt.kind = "Time64" ->
                OkTag(Str("time64") \o Colon \o Str(timeunit_to_str(dt.unit)))
          [] dt.kind = "Timestamp" ->
                OkTag(Str("timestamp") \o Colon \o Str(timeunit_to_str(dt.unit))
                          \o Colon \o (IF dt.tz.some THEN dt.tz.str ELSE Str("-")))
          [] dt.kind = "Duration" ->
                OkTag(Str("duration") \o Colon \o Str(timeunit_to_str(dt.unit)))
          [] dt.kind = "Struct" -> OkTag(Str("struct"))
          [] dt.kind = "Dictionary" ->
                dict(LogicalType_try_from(dt.value), LogicalType_try_from(dt.key))
          [] dt.kind = "List" ->
                IF dt.elem.data_type.kind = "Struct"
                THEN OkTag(Str("list.struct")) ELSE OkTag(Str("list"))
          [] dt.kind = "LargeList" ->
                IF dt.elem.data_type.kind = "Struct"
                THEN OkTag(Str("large_list.struct")) ELSE OkTag(Str("large_list"))
          [] dt.kind = "FixedSizeList" ->
                fixed_size_list(LogicalType_try_from(dt.elem.data_type))
          [] dt.kind = "FixedSizeBinary" ->
                OkTag(Str("fixed_size_binary") \o Colon \o Str(ToString(dt.len)))
          [] OTHER -> ErrType("Schema")

\* The strings the first match of the decoder knows, and their data types.
ExactTypes ==
    {<<Str(SimpleNames[k]), Simple(k)>> : k \in DOMAIN SimpleNames}
        \cup {<<Str("date32") \o Colon \o Str("day"), Simple("Date32")>>,
              <<Str("date64") \o Colon \o Str("ms"), Simple("Date64")>>,
              <<Str("time32") \o Colon \o Str("s"), Time32("Second")>>,
              <<Str("time32") \o Colon \o Str("ms"), Time32("Millisecond")>>,
              <<Str("time64") \o Colon \o Str("us"), Time64("Microsecond")>>,
              <<Str("time64") \o Colon \o Str("ns"), Time64("Nanosecond")>>}
        \cup {<<Str("duration") \o Colon \o Str(timeunit_to_str(tu)), Duration(tu)>> :
                  tu \in TimeUnits}

\* impl TryFrom<&LogicalType> for DataType.
RECURSIVE DataType_try_from(_)
DataType_try_from(lt) ==
    LET fixed_size_list(elem_type, size) ==
            IF elem_type.status # "Ok" THEN elem_type
            ELSE IF ~size.ok THEN ErrType("Schema")
            ELSE OkType(FixedSizeList(ItemField("item", elem_type.dt, TRUE), size.val))
        fixed_size_binary(size) ==
            IF ~size.ok THEN ErrType("Schema") ELSE OkType(FixedSizeBinary(size.val))
        dict(value_type, index_type) ==
            IF value_type.status # "Ok" THEN value_type
            ELSE IF index_type.status # "Ok" THEN index_type
            ELSE OkType(Dictionary(index_type.dt, value_type.dt))
        decimal(bits, precision, scale) ==
            IF ~bits.ok \/ ~precision.ok \/ ~scale.ok THEN ErrType("Schema")
            ELSE IF bits.val = 128 \/ bits.val = 256
            THEN OkType(Decimal(bits.val, precision.val, scale.val))
            ELSE ErrType("Schema")
        timestamp(timeunit, tz) ==
            IF timeunit.status # "Ok" THEN timeunit
            ELSE OkType(Timestamp(timeunit.dt, IF tz = Str("-") THEN NoTz ELSE Tz(tz)))
        of_splits(splits) ==
            CASE splits[1] = Str("fixed_size_list") ->
                    IF Len(splits) # 3 THEN ErrType("Schema")
                    ELSE fixed_size_list(DataType_try_from(splits[2]),
                                         parse(splits[3], I32Min, I32Max))
              [] splits[1] = Str("fixed_size_binary") ->
                    IF Len(splits) # 2 THEN ErrType("Schema")
                    ELSE fixed_size_binary(parse(splits[2], I32Min, I32Max))
              [] splits[1] = Str("dict") ->
                    IF Len(splits) # 4 THEN ErrType("Schema")
                    ELSE dict(DataType_try_from(splits[2]), DataType_try_from(splits[3]))
              [] splits[1] = Str("decimal") ->
                    IF Len(splits) # 4 THEN ErrType("Schema")
                    ELSE decimal(parse(splits[2], 0 - 2 ^ 15, 2 ^ 15 - 1),
                                 parse(splits[3], 0, 255),
                                 parse(splits[4], 0 - 128, 127))
              [] splits[1] = Str("timestamp") ->
                    IF Len(splits) # 3 THEN ErrType("Schema")
                    ELSE timestamp(parse_timeunit(splits[2]), splits[3])
              [] OTHER -> ErrType("Schema")
    IN  IF \E e \in ExactTypes : e[1] = lt
        THEN OkType((CHOOSE e \in ExactTypes : e[1] = lt)[2])
        ELSE of_splits(split(lt))

\* -------------------------------------------------- the codec's behaviour
\* How deep the data types of the model nest.
MaxNesting == 1

TimeZones == {NoTz, Tz(Str("UTC")), Tz(Str("-")), Tz(<<>>),
              Tz(Str("+08") \o Colon \o Str("00"))}

\* The data types without a type inside; "Interval" stands for the data
\* types the encoder does not support.
Scalars ==
    {Simple(k) : k \in DOMAIN SimpleNames \cup {"Date32", "Date64", "Struct", "Interval"}}
        \cup {Decimal(bits, p, s) : bits \in {128, 256}, p \in {10, 38}, s \in {0 - 3, 2}}
        \cup {Time32(tu) : tu \in TimeUnits} \cup {Time64(tu) : tu \in TimeUnits}
        \cup {Duration(tu) : tu \in TimeUnits}
        \cup {Timestamp(tu, tz) : tu \in TimeUnits, tz \in TimeZones}
        \cup {FixedSizeBinary(16)}

\* The data types built from the types of T.
Nested(T) ==
    {Dictionary(key, value) : key \in {Simple("Int8"), Simple("UInt32")}, value \in T}
        \cup {FixedSizeList(ItemField(name, t, nullable), 3) :
                  name \in {"item", "x"}, t \in T, nullable \in BOOLEAN}
        \cup {List(ItemField("item", t, TRUE)) : t \in {Simple("Int32"), Simple("Struct")}}
        \cup {LargeList(ItemField("item", t, TRUE)) : t \in {Simple("Int32"), Simple("Struct")}}

RECURSIVE TypesOfDepth(_)
TypesOfDepth(d) ==
    IF d = 0 THEN Scalars
    ELSE TypesOfDepth(d - 1) \cup Nested(TypesOfDepth(d - 1))

DataTypes == TypesOfDepth(MaxNesting)

\* The string of the given segments, colons between them.
RECURSIVE Join(_)
Join(segments) ==
    IF Len(segments) = 1 THEN Str(segments[1])
    ELSE Str(segments[1]) \o Colon \o Join(Tail(segments))

\* Logical types no encoder wrote.
ForeignTags ==
    {Join(segments) : segments \in
        {<<"foo">>, <<"struct">>, <<"list">>, <<"time32", "us">>, <<"time32", "xx">>,
         <<"decimal", "64", "10", "2">>, <<"decimal", "128", "300", "2">>,
         <<"decimal", "128", "10", "200">>, <<"decimal", "128", "10">>,
         <<"decimal", "x", "10", "2">>, <<"decimal", "256", "10", "2">>,
         <<"timestamp", "xx", "-">>, <<"timestamp", "us">>,
         <<"timestamp", "us", "+08", "00">>, <<"timestamp", "ms", "UTC">>,
         <<"fixed_size_list", "int32">>, <<"fixed_size_list", "int32", "x">>,
         <<"fixed_size_list", "foo", "3">>, <<"fixed_size_list", "int32", "3">>,
         <<"fixed_size_binary", "x">>, <<"fixed_size_binary", "1", "2">>,
         <<"dict", "int32", "int8">>, <<"dict", "foo", "int8", "false">>,
         <<"dict", "string", "int8", "false">>}}

InitLogicalType ==
    /\ store = FileOf(<<MaxRows>>, 0).store
    /\ page_table = FileOf(<<MaxRows>>, 0).page_table
    /\ batch_offsets = FileOf(<<MaxRows>>, 0).batch_offsets
    /\ projection = FileSchema
    /\ fragment_id = Word64(0)
    /\ with_row_id = FALSE
    /\ overflow_checks \in BOOLEAN
    /\ req = NoReq
    /\ result = Err("none", 0)

\* LogicalType::try_from(&data_type).
Encode ==
    /\ Idle
    /\ \E dt \in DataTypes :
           /\ req' = [op |-> "encode", dt |-> dt, tag |-> <<>>]
           /\ result' = LogicalType_try_from(dt)
           /\ UNCHANGED <<reader, with_row_id>>

\* DataType::try_from(&logical_type) of the logical type just encoded.
Decode ==
    /\ req.op = "encode"
    /\ result.status = "Ok"
    /\ req' = [op |-> "round_trip", dt |-> req.dt, tag |-> result.tag]
    /\ result' = DataType_try_from(result.tag)
    /\ UNCHANGED <<reader, with_row_id>>

\* DataType::try_from(&logical_type) of a logical type read from a file.
DecodeTag ==
    /\ Idle
    /\ \E tag \in ForeignTags :
           /\ req' = [op |-> "decode", dt |-> NoType, tag |-> tag]
           /\ result' = DataType_try_from(tag)
           /\ UNCHANGED <<reader, with_row_id>>

ReturnLogicalType ==
    /\ ~Idle
    /\ req' = NoReq
    /\ result' = Err("none", 0)
    /\ UNCHANGED <<reader, with_row_id>>

NextLogicalType == Encode \/ Decode \/ DecodeTag \/ ReturnLogicalType

SpecLogicalType == InitLogicalType /\ [][NextLogicalType]_vars

\* ------------------------------------------------------------------- C11
\* C11: decoding the logical type that the encoder wrote for a data type
\* succeeds and yields that data type again, for every data type the encoder
\* accepts.
C11_RoundTrip ==
    req.op = "round_trip" => (result.status = "Ok" /\ result.dt = req.dt)

\* ------------------------------------------------------------------- C12
\* The leading tokens the decoder's second match knows, with the number of
\* segments each one takes.
SegmentCounts ==
    {<<Str("fixed_size_list"), 3>>, <<Str("fixed_size_binary"), 2>>,
     <<Str("dict"), 4>>, <<Str("decimal"), 4>>, <<Str("timestamp"), 3>>}

UnknownLeadingToken(lt) ==
    /\ \A e \in ExactTypes : e[1] # lt
    /\ \A c \in SegmentCounts : c[1] # split(lt)[1]

WrongSegmentCount(lt) ==
    \E c \in SegmentCounts : c[1] = split(lt)[1] /\ c[2] # Len(split(lt))

BadNumericSegment(lt) ==
    \/ /\ split(lt)[1] = Str("decimal")
       /\ Len(split(lt)) = 4
       /\ \/ ~parse(split(lt)[2], 0 - 2 ^ 15, 2 ^ 15 - 1).ok
          \/ parse(split(lt)[2], 0 - 2 ^ 15, 2 ^ 15 - 1).val \notin {128, 256}
          \/ ~parse(split(lt)[3], 0, 255).ok
          \/ ~parse(split(lt)[4], 0 - 128, 127).ok
    \/ /\ split(lt)[1] = Str("fixed_size_list")
       /\ Len(split(lt)) = 3
       /\ ~parse(split(lt)[3], I32Min, I32Max).ok
    \/ /\ split(lt)[1] = Str("fixed_size_binary")
       /\ Len(split(lt)) = 2
       /\ ~parse(split(lt)[2], I32Min, I32Max).ok

BadUnitSegment(lt) ==
    /\ split(lt)[1] = Str("timestamp")
    /\ Len(split(lt)) = 3
    /\ split(lt)[2] \notin {Str("s"), Str("ms"), Str("us"), Str("ns")}

\* C12: decoding a logical type with an unknown leading token, a wrong number
\* of segments, or a numeric or time-unit segment that does not parse or is
\* out of range fails with an error of kind Schema.
C12_MalformedIsSchema ==
    (/\ req.op = "decode"
     /\ \/ UnknownLeadingToken(req.tag)
        \/ WrongSegmentCount(req.tag)
        \/ BadNumericSegment(req.tag)
        \/ BadUnitSegment(req.tag))
        => result.status = "Schema"


\* ================================================================ manifest
\* read_manifest (reader.rs): the manifest of a manifest file, found through
\* the file's last 16 bytes.  Sizes are the real ones, so a buffer is not a
\* sequence of bytes but the sequence of the file's byte ranges <<lo, hi>> it
\* holds, in order.
PREFETCH_SIZE == 64 * 1024

\* A manifest file as read_manifest sees it: its size, whether it ends with
\* MAGIC, the i64 in its bytes size-16..size-8, and what the writer put in
\* it: at length_pos the u32 `declared`, then the protobuf of `manifest`
\* (manifest.len bytes).  Every other u32 of the file reads as `junk`.
ManifestFile(size, magic, manifest_pos, length_pos, declared, manifest, junk) ==
    [size |-> size, magic |-> magic, manifest_pos |-> manifest_pos,
     length_pos |-> length_pos, declared |-> declared, manifest |-> manifest,
     junk |-> junk]

NoManifest      == [version |-> 0, len |-> 0]
\* What the protobuf decoder returns for an empty message.
DefaultManifest == [version |-> 0, len |-> 0]

\* write_manifest and write_magics after `prefix` bytes: the length, the
\* protobuf, the position of the length, the version and MAGIC.
write_manifest(prefix, manifest, junk) ==
    ManifestFile(prefix + 4 + manifest.len + 16, TRUE, prefix, prefix,
                 manifest.len, manifest, junk)

\* Bytes: length, slice(a..b) and concatenation.
BufLen(buf) == SumSeq([k \in 1..Len(buf) |-> buf[k][2] - buf[k][1]])

RECURSIVE BufSlice(_, _, _)
BufSlice(buf, a, b) ==
    IF buf = <<>> \/ b <= 0 \/ a >= b THEN <<>>
    ELSE LET n == buf[1][2] - buf[1][1]
         IN  IF a >= n THEN BufSlice(Tail(buf), a - n, b - n)
             ELSE <<<<buf[1][1] + a, buf[1][1] + (IF b < n THEN b ELSE n)>>>>
                      \o BufSlice(Tail(buf), 0, b - n)

\* The same bytes with adjacent ranges of the file joined.
RECURSIVE BufJoin(_)
BufJoin(buf) ==
    IF Len(buf) < 2 THEN buf
    ELSE IF buf[1][2] = buf[2][1]
    THEN BufJoin(<<<<buf[1][1], buf[2][2]>>>> \o SubSeq(buf, 3, Len(buf)))
    ELSE <<buf[1]>> \o BufJoin(Tail(buf))

\* Result<Manifest>, with the ranges read from the store and whether the
\* protobuf decoder ran.
OkManifest(manifest, reads)   ==
    [status |-> "Ok", manifest |-> manifest, reads |-> reads, decoded |-> TRUE]
ErrManifest(kind, reads, decoded) ==
    [status |-> kind, manifest |-> NoManifest, reads |-> reads, decoded |-> decoded]

\* LittleEndian::read_u32 of the four bytes held by buf.
read_u32(file, buf) ==
    IF BufJoin(buf) = <<<<file.length_pos, file.length_pos + 4>>>>
    THEN file.declared ELSE file.junk

\* pb::Manifest::decode and Manifest::from: the manifest the writer encoded
\* if buf holds exactly its bytes; an empty message decodes to the default;
\* other bytes are taken not to be a protobuf, a decode error.
decode(file, buf, reads) ==
    IF /\ file.manifest.len > 0
       /\ BufJoin(buf) = <<<<file.length_pos + 4, file.length_pos + 4 + file.manifest.len>>>>
    THEN OkManifest(file.manifest, reads)
    ELSE IF BufLen(buf) = 0 THEN OkManifest(DefaultManifest, reads)
    ELSE ErrManifest("IO", reads, TRUE)

\* buf.slice(4..buf.len() - 16) forgetting that the position and the version
\* precede MAGIC.
strip_magic_only(buf) == BufSlice(buf, 4, BufLen(buf) - 8)

\* buf.slice(4..buf.len() - 16).
strip(buf) == BufSlice(buf, 4, BufLen(buf) - 16)

\* A reader that trusts the body whatever length the file declares.
length_ignored(buf, recorded_length) == TRUE

\* buf.len() == recorded_length.
length_matches(buf, recorded_length) == BufLen(buf) = recorded_length

\* The second range read ending one byte into the window.
manifest_buf_overlapping(file_size, manifest_pos) ==
    LET initial_start == IF file_size - PREFETCH_SIZE > 0
                         THEN file_size - PREFETCH_SIZE ELSE 0
        first  == <<initial_start, file_size>>
        second == <<manifest_pos, file_size - PREFETCH_SIZE + 1>>
    IN  IF file_size - manifest_pos <= file_size - initial_start
        THEN [buf   |-> BufSlice(<<first>>, BufLen(<<first>>) - (file_size - manifest_pos),
                                 BufLen(<<first>>)),
              reads |-> <<first>>]
        ELSE [buf |-> BufJoin(<<second, first>>), reads |-> <<first, second>>]

\* The manifest region read_manifest assembles for a recorded position
\* within the file, and the range reads it issues: the tail of the
\* prefetched window, or else a second range read up to the start of the
\* window with the window appended.
manifest_buf(file_size, manifest_pos) ==
    LET initial_start == IF file_size - PREFETCH_SIZE > 0
                         THEN file_size - PREFETCH_SIZE ELSE 0
        first  == <<initial_start, file_size>>
        second == <<manifest_pos, file_size - PREFETCH_SIZE>>
    IN  IF file_size - manifest_pos <= file_size - initial_start
        THEN [buf   |-> BufSlice(<<first>>, BufLen(<<first>>) - (file_size - manifest_pos),
                                 BufLen(<<first>>)),
              reads |-> <<first>>]
        ELSE [buf |-> BufJoin(<<second, first>>), reads |-> <<first, second>>]

\* read_manifest.  `rejects` tells whether the object store answers a range
\* outside the object with an error or aborts on it.
read_manifest(file, checks, rejects) ==
    LET file_size     == file.size
        initial_start == IF file_size - PREFETCH_SIZE > 0
                         THEN file_size - PREFETCH_SIZE ELSE 0
        first         == <<initial_start, file_size>>
        body(buf, reads) ==
            IF ~length_matches(strip(buf), read_u32(file, BufSlice(buf, 0, 4)))
            THEN ErrManifest("IO", reads, FALSE)
            ELSE decode(file, strip(buf), reads)
        of_buf(buf, reads) ==
            \* buf[0..4] and slice(4..len - 16) abort on a buffer that is
            \* too short for them.
            IF BufLen(buf) < 20 THEN ErrManifest("Panic", reads, FALSE)
            ELSE body(buf, reads)
        of_region(region) == of_buf(region.buf, region.reads)
        of_pos(manifest_pos) ==
            IF manifest_pos > file_size
            THEN \* file_size - manifest_pos leaves usize
                 IF checks THEN ErrManifest("Panic", <<first>>, FALSE)
                 ELSE IF rejects
                 THEN ErrManifest("IO", <<first, <<manifest_pos, file_size - PREFETCH_SIZE>>>>,
                                  FALSE)
                 ELSE ErrManifest("Panic",
                                  <<first, <<manifest_pos, file_size - PREFETCH_SIZE>>>>, FALSE)
            ELSE of_region(manifest_buf(file_size, manifest_pos))
    IN  IF file_size - initial_start < 16 THEN ErrManifest("IO", <<first>>, FALSE)
        ELSE IF ~file.magic THEN ErrManifest("IO", <<first>>, FALSE)
        ELSE of_pos(file.manifest_pos)

\* ------------------------------------------------ read_manifest's behaviour
Prefixes      == {0, 1000, PREFETCH_SIZE, 70000}
ManifestLens  == {10, 1000, PREFETCH_SIZE - 20, PREFETCH_SIZE - 19, 100000}
Manifests     == [version : {1, 2}, len : ManifestLens]
JunkLengths   == {0, 77}

\* What may have happened to a written file before it is read: MAGIC
\* overwritten, another position in the footer, another declared length, or
\* only the first bytes of the file left.
Corruptions(f) ==
    {[f EXCEPT !.magic = FALSE]}
        \cup {[f EXCEPT !.manifest_pos = p] :
                  p \in {f.size - 20, f.size - 19, f.size - 16, f.size - 3, f.size,
                         f.size + 5, f.manifest_pos + 1} \ {f.manifest_pos}}
        \cup {[f EXCEPT !.declared = d] : d \in {f.declared - 1, f.declared + 1}}
        \cup {[f EXCEPT !.size = size, !.magic = magic] :
                  size \in {0, 8, 15}, magic \in BOOLEAN}

InitManifest == InitLogicalType

WriteManifest ==
    /\ Idle
    /\ \E prefix \in Prefixes, manifest \in Manifests, junk \in JunkLengths :
           /\ req' = [op |-> "write_manifest", written |-> TRUE, rejects |-> FALSE,
                      file |-> write_manifest(prefix, manifest, junk)]
           /\ result' = ErrManifest("none", <<>>, FALSE)
           /\ UNCHANGED <<reader, with_row_id>>

Corrupt ==
    /\ req.op = "write_manifest"
    /\ req.written
    /\ \E file \in Corruptions(req.file) :
           /\ req' = [req EXCEPT !.written = FALSE, !.file = file]
           /\ UNCHANGED <<reader, with_row_id, result>>

ReadManifest ==
    /\ req.op = "write_manifest"
    /\ \E rejects \in BOOLEAN :
           /\ req' = [req EXCEPT !.op = "read_manifest", !.rejects = rejects]
           /\ result' = read_manifest(req.file, overflow_checks, rejects)
           /\ UNCHANGED <<reader, with_row_id>>

ReturnManifest ==
    /\ req.op = "read_manifest"
    /\ req' = NoReq
    /\ result' = Err("none", 0)
    /\ UNCHANGED <<reader, with_row_id>>

NextManifest == WriteManifest \/ Corrupt \/ ReadManifest \/ ReturnManifest

SpecManifest == InitManifest /\ [][NextManifest]_vars

\* ------------------------------------------------------------------- C13
\* C13: reading a file that holds any prefix, then a written manifest, the
\* footer and the magic bytes returns that manifest, whether the manifest is
\* smaller or larger than the 64 KiB window read first.
C13_ManifestRoundTrip ==
    (req.op = "read_manifest" /\ req.written) =>
        (result.status = "Ok" /\ result.manifest = req.file.manifest)

C13_Witness ==
    /\ req.op = "read_manifest"
    /\ req.written
    /\ req.file.length_pos > 0
    /\ req.file.manifest.len > PREFETCH_SIZE
    /\ Len(result.reads) = 2
    /\ result.status = "Ok"
    /\ result.manifest = req.file.manifest

\* ------------------------------------------------------------------- C14
\* C14: a file that does not end with the magic bytes, or is too short to
\* hold a manifest (fewer than 16 bytes, or a recorded manifest position
\* beyond the end of the file, or fewer than 20 bytes from that position to
\* the end), is answered with an IO error and no manifest.
C14_BadFileIsIO ==
    (/\ req.op = "read_manifest"
     /\ \/ ~req.file.magic
        \/ req.file.size < 16
        \/ req.file.manifest_pos > req.file.size
        \/ req.file.size - req.file.manifest_pos < 20)
        => (result.status = "IO" /\ result.manifest = NoManifest)

\* ------------------------------------------------------------------- C15
\* The files whose declared length read_manifest gets to compare.
ReachesLengthCheck(f) ==
    /\ f.size >= 16
    /\ f.magic
    /\ f.manifest_pos <= f.size
    /\ f.size - f.manifest_pos >= 20

\* The u32 in the first 4 bytes of the manifest region.
DeclaredLength(f) == IF f.manifest_pos = f.length_pos THEN f.declared ELSE f.junk

\* C15: when the length declared in the first 4 bytes of the manifest region
\* differs from the length of the body left after stripping those 4 bytes and
\* the 16-byte footer, read_manifest returns an IO error without decoding;
\* it decodes the protobuf only when the two are equal.
C15_LengthChecked ==
    (req.op = "read_manifest" /\ ReachesLengthCheck(req.file)) =>
        IF DeclaredLength(req.file) # req.file.size - req.file.manifest_pos - 20
        THEN result.status = "IO" /\ ~result.decoded /\ result.manifest = NoManifest
        ELSE result.decoded

C15_Witness ==
    /\ req.op = "read_manifest"
    /\ ReachesLengthCheck(req.file)
    /\ req.file.manifest_pos = req.file.length_pos
    /\ req.file.declared = req.file.manifest.len + 1
    /\ result.status = "IO"
    /\ ~result.decoded


\* ------------------------------------------------------------------- C16
\* The per-batch requests of a read_range or take request, and what each
\* returns when read on its own.
PerBatchRequests(r) ==
    IF r.op = "read_range"
    THEN LET ranges == range_to_batches(r.range[1], r.range[2]).val
         IN  [k \in 1..Len(ranges) |->
                 [batch_id |-> ranges[k].batch_id,
                  params   |-> Range(ranges[k].range[1], ranges[k].range[2])]]
    ELSE LET groups == group_indices_to_batches(r.indices)
         IN  [k \in 1..Len(groups) |->
                 [batch_id |-> groups[k].batch_id,
                  params   |-> Indices(groups[k].offsets)]]

PerBatchResults(r) ==
    LET requests == PerBatchRequests(r)
    IN  [k \in 1..Len(requests) |->
            FileReader_read_batch(requests[k].batch_id, requests[k].params, r.projection)]

\* C16: whatever the order in which the concurrent per-batch reads of
\* read_range and take complete, each column of the result holds the rows of
\* the per-batch results one after the other in request order.
C16_ConcatInRequestOrder ==
    (req.op \in {"read_range", "take"} /\ result.status = "Ok") =>
        LET outs == PerBatchResults(req)
        IN  \A c \in 1..Len(result.batch.columns) :
                ColumnCells(result.batch.columns[c])
                    = Flatten([k \in 1..Len(outs) |-> ColumnCells(outs[k].batch.columns[c])])

C16_Witness ==
    /\ req.op \in {"read_range", "take"}
    /\ req.arrival = <<2, 1>>
    /\ req.projection = FileSchema
    /\ result.status = "Ok"
    /\ result.batch.num_rows = 2 * MaxRows


\* ------------------------------------------------------------------- C20
\* The last request read the struct column of an existing batch.
StructRead ==
    /\ req.op = "read_batch"
    /\ req.projection = <<FieldS>>
    /\ req.batch_id < num_batches

\* The first part of C20: the children of a returned struct array are, in
\* declared order, what read_array returns for each child field with the
\* batch id and the params of the struct read, and they are equally long.
StructChildrenSameRequest ==
    (StructRead /\ result.status = "Ok") =>
        LET arr == result.batch.columns[1]
        IN  /\ Len(arr.children) = Len(FieldS.children)
            /\ \A c \in 1..Len(FieldS.children) :
                   /\ arr.children[c] = read_array(FieldS.children[c], req.batch_id,
                                                   req.params).arr
                   /\ arr.children[c].len = arr.len

\* C20: a struct read hands the same batch id and params to every child and
\* assembles the children in declared order, so that all children have the
\* same number of rows and row i of every child is the stored value of the
\* same selected row.
C20_StructRowsAligned ==
    (StructRead /\ result.status = "Ok" /\ InRangeReq(req.params, ReqRows)) =>
        LET sel == Selected(req.params, ReqRows)
        IN  /\ StructChildrenSameRequest
            /\ HoldsRows(result.batch, req.projection,
                         [k \in 1..Len(sel) |-> ReqBase + sel[k]])


\* ------------------------------------------------------------------- C17
\* The first of the given results that is not Ok, 0 if all are.
FirstFailure(outs) ==
    IF \A k \in 1..Len(outs) : outs[k].status = "Ok" THEN 0
    ELSE CHOOSE k \in 1..Len(outs) :
             outs[k].status # "Ok" /\ \A j \in 1..(k - 1) : outs[j].status = "Ok"

\* `res` is the failure of the first failing one of `outs` and nothing else:
\* its error, no batch, and the reads issued up to it, each once.
FailsAs(res, outs) ==
    /\ res.status = outs[FirstFailure(outs)].status
    /\ res.batch = NoBatch
    /\ res.reads = SumSeq([k \in 1..FirstFailure(outs) |-> outs[k].reads])

\* What read_array returns for each of the given fields under the last
\* read_batch request.
FieldResults(fields) ==
    [c \in 1..Len(fields) |-> read_array(fields[c], req.batch_id, req.params)]

\* C17: when the read of a field fails, at the top level or below a struct,
\* read_batch returns that error and no batch; when a per-batch read of
\* read_range or take fails, the call returns that error, no concatenation of
\* the other batches, and reads nothing again.
C17_ErrorsPropagate ==
    /\ req.op = "read_batch" =>
           LET outs == FieldResults(req.projection)
           IN  FirstFailure(outs) > 0 => FailsAs(result, outs)
    /\ (req.op = "read_batch" /\ req.projection = <<FieldS>>) =>
           LET outs == FieldResults(FieldS.children)
           IN  FirstFailure(outs) > 0 =>
                   /\ result.status = outs[FirstFailure(outs)].status
                   /\ result.batch = NoBatch
    /\ req.op \in {"read_range", "take"} =>
           LET outs == PerBatchResults(req)
           IN  FirstFailure(outs) > 0 => FailsAs(result, outs)

C17_Witness ==
    /\ req.op = "take"
    /\ req.projection = FileSchema
    /\ result.status = "IO"
    /\ result.batch = NoBatch
    /\ LET outs == PerBatchResults(req)
       IN  /\ Len(outs) = 2
           /\ FirstFailure(outs) = 2
           /\ outs[1].batch.num_rows > 0
           /\ outs[2].status = "IO"


MissingPageRead ==
    /\ req.op = "read_batch"
    /\ Len(req.projection) = 1
    /\ req.projection[1].type # "Struct"
    /\ ~get_page_info(req.projection[1], req.batch_id).some

\* C19: a typed reader that needs a page returns an IO error and issues no
\* data read when the page table has no entry for the field and the batch.
C19_MissingPageIsIO ==
    MissingPageRead =>
        (result.status = "IO" /\ result.reads = 0 /\ result.batch = NoBatch)

\* ------------------------------------------------------------------- C21
\* The last request read one list or large-list column of a batch whose
\* offsets page exists.
ListPageRead ==
    /\ req.op = "read_batch"
    /\ Len(req.projection) = 1
    /\ req.projection[1].type \in {"List", "LargeList"}
    /\ get_page_info(req.projection[1], req.batch_id).some

\* The outcomes of the two parameter derivations of read_list_array for the
\* last request: positions_params, and then, over the offsets fetched with
\* it, value_params or the ranges of take_list_array. A derivation that is
\* not reached has no outcome.
ListDerivations ==
    LET field     == req.projection[1]
        page_info == get_page_info(field, req.batch_id).info
        pp        == positions_params(req.params)
        fetched(position_arr) ==
            IF position_arr.status # "Ok" THEN {}
            ELSE IF req.params.kind = "Indices"
            THEN {take_ranges(position_arr.arr, req.params.indices).status}
            ELSE {value_params(req.params, position_arr.arr).status}
    IN  {pp.status}
            \cup (IF pp.status # "Ok" THEN {}
                  ELSE fetched(read_fixed_stride_array(OffsetType(field.type),
                                                       page_info.position,
                                                       page_info.length, pp.val)))

\* C21: the parameter derivations of the list reader never abort, whatever
\* the request: each yields a value or an error value.
C21_ListDerivationsTotal ==
    ListPageRead => "Panic" \notin ListDerivations

\* ------------------------------------------- opening a file with dictionaries
\* Option<T>: None, or Some of a value.
None == [some |-> FALSE]
Some(v) == [some |-> TRUE, val |-> v]

\* The dictionary side-data of a field: { offset, length, values }.
DictionaryRef(offset, length, values) ==
    [offset |-> offset, length |-> length, values |-> values]

\* From<&pb::Dictionary> for Dictionary: the values are not part of the
\* protobuf and are absent after decoding.
Dictionary_from(proto) == DictionaryRef(proto.offset, proto.length, None)

\* The dictionary values a file stores in the bytes [offset, offset + length).
DictValues(offset, length) == [k \in 1..length |-> 500 + offset + k]

\* A top-level field of a manifest's schema with its dictionary side-data.
DictField(id, data_type, dictionary) ==
    [id |-> id, type |-> data_type, dictionary |-> dictionary]

\* Schema::load_dictionary: a range read of (offset, length) for every
\* dictionary-bearing field, the values attached to the field; the first
\* read that fails is the result.
load_dictionary(schema, fails) ==
    IF \E k \in 1..Len(schema) : schema[k].dictionary.some /\ k \in fails
    THEN [status |-> "IO", schema |-> <<>>]
    ELSE [status |-> "Ok",
          schema |-> [k \in 1..Len(schema) |->
                        IF schema[k].dictionary.some
                        THEN [schema[k] EXCEPT !.dictionary =
                                Some([schema[k].dictionary.val EXCEPT !.values =
                                        Some(DictValues(schema[k].dictionary.val.offset,
                                                        schema[k].dictionary.val.length))])]
                        ELSE schema[k]]]

\* The manifest read_struct decodes from the file at manifest_position: the
\* written schema, every dictionary as its protobuf has it.
read_struct(file_schema) ==
    [k \in 1..Len(file_schema) |->
        IF file_schema[k].dictionary.some
        THEN [file_schema[k] EXCEPT !.dictionary =
                Some(Dictionary_from(file_schema[k].dictionary.val))]
        ELSE file_schema[k]]

\* FileReader::try_new_with_fragment, as far as the projection goes: the
\* schema of the manifest the caller supplies, as supplied, or else the
\* schema of the manifest decoded from the file with its dictionaries loaded.
try_new_with_fragment(file_schema, manifest, fails) ==
    IF manifest.some
    THEN [status |-> "Ok", schema |-> manifest.val]
    ELSE load_dictionary(read_struct(file_schema), fails)

\* read_dictionary_array: the page lookup, then the values taken from the
\* field with two unwraps, then the decoder over them.
read_dictionary_array(field, has_page) ==
    IF ~has_page THEN [status |-> "IO", values |-> <<>>]
    ELSE IF ~field.dictionary.some THEN [status |-> "Panic", values |-> <<>>]
    ELSE IF ~field.dictionary.val.values.some THEN [status |-> "Panic", values |-> <<>>]
    ELSE [status |-> "Ok", values |-> field.dictionary.val.values.val]

\* The schemas the files are written with: one to three fields, each plain
\* or dictionary-typed with its values somewhere in the file.
WrittenFields(id) ==
    {DictField(id, "Int64", None)}
        \cup {DictField(id, "Dictionary", Some(DictionaryRef(offset, length, None))) :
                  offset \in {10, 20}, length \in {1, 2}}
WrittenSchemas ==
    UNION {{s \in [1..n -> UNION {WrittenFields(id) : id \in 0..2}] :
                \A k \in 1..n : s[k].id = k - 1} : n \in 1..3}

\* The manifests a caller can hold for a written file: each dictionary field
\* with its values loaded, with its values absent (as read_manifest returns
\* it), or with no side-data at all.
HeldFields(field) ==
    IF ~field.dictionary.some THEN {field}
    ELSE {field,
          [field EXCEPT !.dictionary = None],
          [field EXCEPT !.dictionary =
              Some([field.dictionary.val EXCEPT !.values =
                      Some(DictValues(field.dictionary.val.offset,
                                      field.dictionary.val.length))])]}
HeldManifests(file_schema) ==
    {s \in [1..Len(file_schema) -> UNION {HeldFields(file_schema[k]) : k \in 1..Len(file_schema)}] :
        \A k \in 1..Len(file_schema) : s[k] \in HeldFields(file_schema[k])}

InitOpen == InitLogicalType

\* FileReader::try_new_with_fragment over a written file.
Open ==
    /\ Idle
    /\ \E file_schema \in WrittenSchemas :
       \E manifest \in {None} \cup {Some(m) : m \in HeldManifests(file_schema)},
          fails \in SUBSET (1..Len(file_schema)) :
           /\ Cardinality(fails) <= 1
           /\ req' = [op |-> "open", file_schema |-> file_schema, manifest |-> manifest,
                      field |-> 0, has_page |-> FALSE]
           /\ result' = try_new_with_fragment(file_schema, manifest, fails)
           /\ UNCHANGED <<reader, with_row_id>>

\* read_batch of one dictionary-typed field of the opened reader's schema.
ReadDictionary ==
    /\ req.op = "open"
    /\ result.status = "Ok"
    /\ \E k \in 1..Len(result.schema), has_page \in BOOLEAN :
           /\ result.schema[k].type = "Dictionary"
           /\ req' = [req EXCEPT !.op = "read_dictionary", !.field = k,
                                 !.has_page = has_page]
           /\ result' = [schema |-> result.schema,
                         read  |-> read_dictionary_array(result.schema[k], has_page),
                         status |-> "Ok"]
           /\ UNCHANGED <<reader, with_row_id>>

ReturnOpen ==
    /\ req.op \in {"open", "read_dictionary"}
    /\ req' = NoReq
    /\ result' = Err("none", 0)
    /\ UNCHANGED <<reader, with_row_id>>

NextOpen == Open \/ ReadDictionary \/ ReturnOpen

SpecOpen == InitOpen /\ [][NextOpen]_vars

\* ------------------------------------------------------------------- C22
\* Every dictionary-typed field of a schema has its side-data with values.
DictionariesLoaded(schema) ==
    \A k \in 1..Len(schema) :
        schema[k].type = "Dictionary" =>
            (schema[k].dictionary.some /\ schema[k].dictionary.val.values.some)

\* C22: after a successful open, with the manifest read from the file or
\* supplied by the caller, every dictionary-typed field of the reader's
\* schema has its values loaded, and a dictionary read never aborts on an
\* absent dictionary.
C22_DictionariesLoaded ==
    /\ (req.op = "open" /\ result.status = "Ok") => DictionariesLoaded(result.schema)
    /\ req.op = "read_dictionary" => result.read.status # "Panic"

\* -------------------------------------------------------- the L2 kernel
\* The longest vector and the most rows of one matrix.
MaxDim == 9
MaxVectors == 2

\* f32 values are modelled exactly on the integers: the spacing of the f32
\* numbers at a non-negative integer n (1 below 2^24, where every integer
\* is an f32 number).
RECURSIVE Spacing(_)
Spacing(n) == IF n < 2 ^ 24 THEN 1 ELSE 2 * Spacing(n \div 2)

\* The f32 nearest to the non-negative integer n, ties to even: the rounding
\* of every f32 operation.
F32(n) ==
    LET s == Spacing(n)
        q == n \div s
        r == n % s
    IN  IF 2 * r < s THEN q * s
        ELSE IF 2 * r > s THEN (q + 1) * s
        ELSE (IF q % 2 = 0 THEN q ELSE q + 1) * s

\* A slice of f32: its elements and the position of its first element in
\* its allocation, in elements from a 32-byte boundary.
Slice(base, data) == [base |-> base, data |-> data]
SliceFrom(s, k) == Slice(s.base + k, SubSeq(s.data, k + 1, Len(s.data)))

\* l2_scalar: the squares of the differences, each rounded, summed in order.
RECURSIVE scalar_sum(_, _, _)
scalar_sum(from, to, sum) ==
    IF from = <<>> \/ to = <<>> THEN sum
    ELSE scalar_sum(Tail(from), Tail(to),
                    F32(sum + F32((from[1] - to[1]) * (from[1] - to[1]))))
l2_scalar(from, to) == scalar_sum(from.data, to.data, 0)

\* An aligned load, which faults off a 32-byte boundary.
mm256_load_ps(s, i) ==
    [fault |-> (s.base + i) % 8 # 0, lanes |-> SubSeq(s.data, i + 1, i + 8)]

\* _mm256_loadu_ps: eight elements from element i on, at any alignment.
mm256_loadu_ps(s, i) == [fault |-> FALSE, lanes |-> SubSeq(s.data, i + 1, i + 8)]

\* The loop of x86_64::avx::l2_f32 from block `i` on: per lane, the fused
\* sub * sub + sums with one rounding.
RECURSIVE avx_blocks(_, _, _, _)
avx_blocks(from, to, i, sums) ==
    IF i + 8 > Len(from.data) THEN [fault |-> FALSE, lanes |-> sums]
    ELSE LET left  == mm256_loadu_ps(from, i)
             right == mm256_loadu_ps(to, i)
         IN  IF left.fault \/ right.fault THEN [fault |-> TRUE, lanes |-> sums]
             ELSE avx_blocks(from, to, i + 8,
                      [j \in 1..8 |->
                          F32((left.lanes[j] - right.lanes[j])
                                  * (left.lanes[j] - right.lanes[j]) + sums[j])])

\* The horizontal reduction of x86_64::avx::l2_f32: the two halves added,
\* then lanes 0+2 and 1+3, then the horizontal add of those two.
avx_reduce(x) ==
    LET y == [j \in 1..4 |-> F32(x[j] + x[j + 4])]
    IN  F32(F32(y[1] + y[3]) + F32(y[2] + y[4]))

\* x86_64::avx::l2_f32
avx_l2_f32(from, to) ==
    LET len == (Len(from.data) \div 8) * 8
        of_sums(sums) ==
            IF sums.fault THEN [status |-> "Fault", val |-> 0]
            ELSE [status |-> "Ok",
                  val |-> F32(avx_reduce(sums.lanes)
                                + l2_scalar(SliceFrom(from, len), SliceFrom(to, len)))]
    IN  of_sums(avx_blocks(from, to, 0, [j \in 1..8 |-> 0]))

\* The loop of aarch64::neon::l2_f32: four lanes of fused multiply-add.
RECURSIVE neon_blocks(_, _, _, _)
neon_blocks(from, to, i, sum) ==
    IF i + 4 > Len(from) THEN sum
    ELSE neon_blocks(from, to, i + 4,
             [j \in 1..4 |->
                 F32(sum[j] + (from[i + j] - to[i + j]) * (from[i + j] - to[i + j]))])

\* aarch64::neon::l2_f32; vaddvq_f32 adds the lanes pairwise.
neon_l2_f32(from, to) ==
    LET len == (Len(from.data) \div 4) * 4
        of_sum(sum) ==
            [status |-> "Ok",
             val |-> F32(F32(F32(sum[1] + sum[2]) + F32(sum[3] + sum[4]))
                           + l2_scalar(SliceFrom(from, len), SliceFrom(to, len)))]
    IN  of_sum(neon_blocks(from.data, to.data, 0, [j \in 1..4 |-> 0]))

\* A build target and the machine it runs on.
Target(arch, avx2, fma) == [arch |-> arch, avx2 |-> avx2, fma |-> fma]

\* The path <[f32] as L2>::l2 takes: the compile-time split on the target
\* architecture and the run-time feature test on x86-64.
l2_path(cpu) ==
    IF cpu.arch = "x86_64" /\ cpu.avx2 THEN "avx"
    ELSE IF cpu.arch = "aarch64" THEN "neon"
    ELSE "scalar"

\* <[f32] as L2>::l2. A fused multiply-add on a machine without FMA is an
\* illegal instruction.
l2(cpu, from, to) ==
    CASE l2_path(cpu) = "avx" ->
           IF Len(from.data) >= 8 /\ ~cpu.fma THEN [status |-> "Illegal", val |-> 0]
           ELSE avx_l2_f32(from, to)
      [] l2_path(cpu) = "neon" -> neon_l2_f32(from, to)
      [] OTHER -> [status |-> "Ok", val |-> l2_scalar(from, to)]

\* to.chunks_exact(dimension): the contiguous rows of `to`.
chunks_exact(to, dimension) ==
    [k \in 1..(Len(to.data) \div dimension) |->
        Slice(to.base + (k - 1) * dimension,
              SubSeq(to.data, (k - 1) * dimension + 1, k * dimension))]

\* l2_distance_batch: the two assertions, then one l2 per row.
l2_distance_batch(cpu, from, to, dimension) ==
    IF Len(from.data) # dimension THEN [status |-> "Panic", values |-> <<>>]
    ELSE IF dimension = 0 \/ Len(to.data) % dimension # 0
    THEN [status |-> "Panic", values |-> <<>>]
    ELSE LET dists == [k \in 1..Len(chunks_exact(to, dimension)) |->
                          l2(cpu, from, chunks_exact(to, dimension)[k])]
         IN  IF \E k \in 1..Len(dists) : dists[k].status # "Ok"
             THEN [status |-> dists[CHOOSE k \in 1..Len(dists) :
                                       dists[k].status # "Ok"].status,
                   values |-> <<>>]
             ELSE [status |-> "Ok", values |-> [k \in 1..Len(dists) |-> dists[k].val]]

\* The machines: x86-64 with and without AVX2 and FMA, aarch64, and a
\* target with neither SIMD path.
Targets ==
    {Target("x86_64", avx2, fma) : avx2 \in BOOLEAN, fma \in BOOLEAN}
        \cup {Target("aarch64", FALSE, FALSE), Target("other", FALSE, FALSE)}

\* Vectors of dimension d: a ramp from `start`, and a vector of ones with
\* one large component.
Ramp(start, d) == [i \in 1..d |-> start + i - 1]
Spike(pos, d) == [i \in 1..d |-> IF i = pos THEN 2 ^ 12 + 1 ELSE 2]
Vectors(d) ==
    {Ramp(start, d) : start \in {0, 1, 3}}
        \cup (IF d = 0 THEN {} ELSE {Spike(pos, d) : pos \in {1, d}})

\* Where a slice starts in its allocation.
Bases == {0, 2}

InitL2 == InitLogicalType

\* l2_distance(from, to) over two vectors of one length.
L2Distance ==
    /\ Idle
    /\ \E cpu \in Targets, d \in 0..MaxDim :
       \E from \in Vectors(d), to \in Vectors(d), base \in Bases :
           /\ req' = [op |-> "l2", cpu |-> cpu, dimension |-> d,
                      from |-> Slice(base, from), to |-> Slice(0, to)]
           /\ result' = l2(cpu, Slice(base, from), Slice(0, to))
           /\ UNCHANGED <<reader, with_row_id>>

\* l2_distance_batch(from, to, dimension) over a matrix of whole rows.
L2DistanceBatch ==
    /\ Idle
    /\ \E cpu \in Targets, d \in 1..MaxDim :
       \E from \in Vectors(d), rows \in SeqsUpTo(Vectors(d), MaxVectors), base \in Bases :
           /\ req' = [op |-> "l2_batch", cpu |-> cpu, dimension |-> d,
                      from |-> Slice(base, from), to |-> Slice(base, Flatten(rows))]
           /\ result' = l2_distance_batch(cpu, Slice(base, from),
                                          Slice(base, Flatten(rows)), d)
           /\ UNCHANGED <<reader, with_row_id>>

ReturnL2 ==
    /\ req.op \in {"l2", "l2_batch"}
    /\ req' = NoReq
    /\ result' = Err("none", 0)
    /\ UNCHANGED <<reader, with_row_id>>

NextL2 == L2Distance \/ L2DistanceBatch \/ ReturnL2

SpecL2 == InitL2 /\ [][NextL2]_vars

\* ------------------------------------------------------------------- C23
\* The sum of the squared differences of two vectors, in the integers.
RECURSIVE SquaredDistance(_, _)
SquaredDistance(a, b) ==
    IF a = <<>> THEN 0
    ELSE (a[1] - b[1]) * (a[1] - b[1]) + SquaredDistance(Tail(a), Tail(b))

\* Row k (from 1) of the matrix of the last request.
MatrixRow(k) ==
    SubSeq(req.to.data, (k - 1) * req.dimension + 1, k * req.dimension)

\* The last request ran on a machine that has the instructions its path uses.
RunsOnItsMachine == l2_path(req.cpu) = "avx" => req.cpu.fma

\* Every row of the last request is at a distance f32 holds exactly, as is
\* then every partial sum.
ExactDistances ==
    \A k \in 1..(Len(req.to.data) \div req.dimension) :
        SquaredDistance(req.from.data, MatrixRow(k)) < 2 ^ 24

\* C23: l2_distance_batch returns one distance per contiguous d-length row of
\* the matrix, the k-th being the sum of the squared differences between the
\* query and row k, for every d and every alignment of the slices.
C23_BatchDistances ==
    (req.op = "l2_batch" /\ RunsOnItsMachine /\ ExactDistances) =>
        /\ result.status = "Ok"
        /\ Len(result.values) = Len(req.to.data) \div req.dimension
        /\ \A k \in 1..Len(result.values) :
               result.values[k] = SquaredDistance(req.from.data, MatrixRow(k))

\* A batch of two rows of nine elements, off the 32-byte boundary, on the
\* AVX path: each row takes one block of eight and a tail of one.
C23_Witness ==
    /\ req.op = "l2_batch"
    /\ l2_path(req.cpu) = "avx" /\ req.cpu.fma
    /\ req.dimension = 9
    /\ req.from.base = 2
    /\ ExactDistances
    /\ result.status = "Ok"
    /\ Len(result.values) = 2
    /\ result.values[1] # result.values[2]

\* ------------------------------------------------------------------- C24
\* Two f32 numbers are within one unit in the last place: they differ by at
\* most the spacing of the f32 numbers at the larger.
WithinOneUlp(a, b) ==
    LET hi == IF a > b THEN a ELSE b
        lo == IF a > b THEN b ELSE a
    IN  hi - lo <= Spacing(hi)

\* C24: on every architecture and for every length, the SIMD implementation
\* of l2 returns the value of the scalar implementation within 1 ULP.
C24_SimdMatchesScalar ==
    (req.op = "l2" /\ RunsOnItsMachine /\ l2_path(req.cpu) # "scalar") =>
        /\ result.status = "Ok"
        /\ WithinOneUlp(result.val, l2_scalar(req.from, req.to))

\* ------------------------------------------------------------------- C25
\* C25: on x86-64, l2 takes the AVX path, which executes fused multiply-add
\* instructions, only when the machine has both AVX2 and FMA; with either
\* missing it takes the scalar loop.
C25_AvxNeedsAvx2AndFma ==
    (req.op \in {"l2", "l2_batch"} /\ req.cpu.arch = "x86_64") =>
        /\ l2_path(req.cpu) = "avx" <=> (req.cpu.avx2 /\ req.cpu.fma)
        /\ l2_path(req.cpu) # "avx" => l2_path(req.cpu) = "scalar"
        /\ result.status # "Illegal"

\* ------------------------------------------------- RecordBatchExt::merge
\* An arrow field of a batch or of a struct array; `children` are the fields
\* of a struct type.
MField(name, data_type, nullable, children) ==
    [name |-> name, type |-> data_type, nullable |-> nullable, children |-> children]

\* A column of `len` rows that is not a struct; `origin` tells the columns
\* of the two batches apart.
Column(data_type, len, origin) ==
    [type |-> data_type, len |-> len, origin |-> origin, fields |-> <<>>,
     columns |-> <<>>]

\* StructArray::from(Vec<(Field, ArrayRef)>): the children must be of one
\* length, which is the array's; without children the length is 0.
StructArray_from(zipped) ==
    IF \E k \in 1..Len(zipped) : zipped[k].column.len # zipped[1].column.len
    THEN [status |-> "Panic", arr |-> Column("Struct", 0, "none")]
    ELSE [status |-> "Ok",
          arr |-> [type |-> "Struct",
                   len |-> IF zipped = <<>> THEN 0 ELSE zipped[1].column.len,
                   origin |-> "merged",
                   fields |-> [k \in 1..Len(zipped) |-> zipped[k].field],
                   columns |-> [k \in 1..Len(zipped) |-> zipped[k].column]]]

\* iter().position(|f| f.name() == name): the first field of that name, from
\* 1, or 0.
position(fields, name) ==
    IF \E k \in 1..Len(fields) : fields[k].name = name
    THEN CHOOSE k \in 1..Len(fields) :
             /\ fields[k].name = name
             /\ \A j \in 1..(k - 1) : fields[j].name # name
    ELSE 0

RECURSIVE merge(_, _)
RECURSIVE merge_all_right(_, _)

\* The left fields in order, a field that is a struct on both sides merged
\* with the right one; `failed` when a merge below failed.
merged_left(left_struct_array, right_struct_array) ==
    [k \in 1..Len(left_struct_array.fields) |->
        LET left_field  == left_struct_array.fields[k]
            left_column == left_struct_array.columns[k]
            right_index == position(right_struct_array.fields, left_field.name)
            of_sub(merged_sub_array) ==
                [failed |-> merged_sub_array.status # "Ok",
                 field  |-> MField(left_field.name, "Struct", left_field.nullable,
                                   merged_sub_array.arr.fields),
                 column |-> merged_sub_array.arr]
        IN  IF right_index # 0 /\ left_field.type = "Struct"
               /\ right_struct_array.fields[right_index].type = "Struct"
            THEN of_sub(merge(left_column, right_struct_array.columns[right_index]))
            ELSE [failed |-> FALSE, field |-> left_field, column |-> left_column]]

\* The fields of the right and their columns, in order.
right_zipped(right_struct_array) ==
    [k \in 1..Len(right_struct_array.fields) |->
        [failed |-> FALSE, field |-> right_struct_array.fields[k],
         column |-> right_struct_array.columns[k]]]

\* merge that adds every column of the right.
merge_all_right(left_struct_array, right_struct_array) ==
    LET zipped == merged_left(left_struct_array, right_struct_array)
                      \o right_zipped(right_struct_array)
    IN  IF \E k \in 1..Len(zipped) : zipped[k].failed
        THEN [status |-> "Panic", arr |-> Column("Struct", 0, "none")]
        ELSE StructArray_from(zipped)

\* merge(left_struct_array, right_struct_array): the left fields, then the
\* fields of the right whose name no left field has.
merge(left_struct_array, right_struct_array) ==
    LET new_on_right(z) == position(left_struct_array.fields, z.field.name) = 0
        zipped == merged_left(left_struct_array, right_struct_array)
                      \o SelectSeq(right_zipped(right_struct_array), new_on_right)
    IN  IF \E k \in 1..Len(zipped) : zipped[k].failed
        THEN [status |-> "Panic", arr |-> Column("Struct", 0, "none")]
        ELSE StructArray_from(zipped)

\* RecordBatch { schema, columns, row_count }
RecordBatch(num_rows, fields, columns) ==
    [num_rows |-> num_rows, fields |-> fields, columns |-> columns]

\* StructArray::from(RecordBatch)
StructArray_of(batch) ==
    [type |-> "Struct", len |-> batch.num_rows, origin |-> "batch",
     fields |-> batch.fields, columns |-> batch.columns]

\* RecordBatchExt::merge: the row counts are compared, the batches merged as
\* struct arrays, and the merged struct array is the batch.
RecordBatch_merge(left, right) ==
    LET into(arr) ==
            IF arr.status # "Ok" THEN [status |-> arr.status, batch |-> RecordBatch(0, <<>>, <<>>)]
            ELSE [status |-> "Ok",
                  batch |-> RecordBatch(arr.arr.len, arr.arr.fields, arr.arr.columns)]
    IN  IF left.num_rows # right.num_rows
        THEN [status |-> "Arrow", batch |-> RecordBatch(0, <<>>, <<>>)]
        ELSE into(merge(StructArray_of(left), StructArray_of(right)))

\* The batches merged: up to two columns a side, named a, b or e (no name
\* twice in one batch), each an Int32 or Utf8 column or a struct of the
\* Int32 children c, d or both.
MergeRows == {2, 3}
ChildNames == {<<"c">>, <<"d">>, <<"c", "d">>}
TopNames ==
    {<<>>} \cup {<<n>> : n \in {"a", "b", "e"}}
        \cup {<<"a", "b">>, <<"b", "a">>, <<"a", "e">>, <<"e", "b">>}
StructColumn(names, len, origin) ==
    [type |-> "Struct", len |-> len, origin |-> origin,
     fields |-> [k \in 1..Len(names) |-> MField(names[k], "Int32", TRUE, <<>>)],
     columns |-> [k \in 1..Len(names) |-> Column("Int32", len, origin)]]
Columns(len, origin) ==
    {Column(t, len, origin) : t \in {"Int32", "Utf8"}}
        \cup {StructColumn(names, len, origin) : names \in ChildNames}
Batches(len, origin) ==
    UNION {{RecordBatch(len,
                        [k \in 1..Len(names) |->
                            MField(names[k], cols[k].type, TRUE, cols[k].fields)],
                        cols) :
                cols \in [1..Len(names) -> Columns(len, origin)]} :
           names \in TopNames}

InitMerge == InitLogicalType

\* left.merge(&right)
Merge ==
    /\ Idle
    /\ \E l \in MergeRows, r \in MergeRows :
       \E left \in Batches(l, "left"), right \in Batches(r, "right") :
           /\ req' = [op |-> "merge", left |-> left, right |-> right]
           /\ result' = RecordBatch_merge(left, right)
           /\ UNCHANGED <<reader, with_row_id>>

ReturnMerge ==
    /\ req.op = "merge"
    /\ req' = NoReq
    /\ result' = Err("none", 0)
    /\ UNCHANGED <<reader, with_row_id>>

NextMerge == Merge \/ ReturnMerge

SpecMerge == InitMerge /\ [][NextMerge]_vars

\* ------------------------------------------------------------------- C26
\* The names of a sequence of fields.
Names(fields) == [k \in 1..Len(fields) |-> fields[k].name]
NoNameTwice(fields) ==
    \A j, k \in 1..Len(fields) : fields[j].name = fields[k].name => j = k

\* `m` holds every field of `l` in the order of `l`, a field that is a
\* struct in `l` and in `r` merged in the same way and any other with the
\* column of `l`, then the fields only `r` has in the order of `r`, and no
\* name twice.
RECURSIVE IsMerged(_, _, _)
IsMerged(m, l, r) ==
    LET only_right == {k \in 1..Len(r.fields) :
                          \A j \in 1..Len(l.fields) : l.fields[j].name # r.fields[k].name}
        before(k) == Cardinality({j \in only_right : j < k})
        in_right(name) == {k \in 1..Len(r.fields) : r.fields[k].name = name}
    IN  /\ Len(m.fields) = Len(l.fields) + Cardinality(only_right)
        /\ Len(m.columns) = Len(m.fields)
        /\ NoNameTwice(m.fields)
        /\ \A k \in 1..Len(l.fields) :
               /\ m.fields[k].name = l.fields[k].name
               /\ IF l.fields[k].type = "Struct"
                     /\ \E j \in in_right(l.fields[k].name) : r.fields[j].type = "Struct"
                  THEN /\ m.fields[k].type = "Struct"
                       /\ m.fields[k].children = m.columns[k].fields
                       /\ \A j \in in_right(l.fields[k].name) :
                              IsMerged(m.columns[k], l.columns[k], r.columns[j])
                  ELSE /\ m.fields[k] = l.fields[k]
                       /\ m.columns[k] = l.columns[k]
        /\ \A k \in only_right :
               /\ m.fields[Len(l.fields) + before(k) + 1] = r.fields[k]
               /\ m.columns[Len(l.fields) + before(k) + 1] = r.columns[k]

\* C26: merge returns an Arrow error for batches of different row counts;
\* otherwise the merged batch holds the left fields in left order (structs
\* of both sides merged recursively, any other shared name with the left
\* column), then the fields only the right has in right order, and no name
\* twice.
C26_Merge ==
    req.op = "merge" =>
        IF req.left.num_rows # req.right.num_rows
        THEN result.status = "Arrow"
        ELSE /\ result.status = "Ok"
             /\ IsMerged(result.batch, req.left, req.right)

\* The merge of test_merge_recursive: a shared struct with different
\* children, a column on the left only and one on the right only.
C26_Witness ==
    /\ req.op = "merge"
    /\ Names(req.left.fields) = <<"a", "b">>
    /\ Names(req.right.fields) = <<"e", "b">>
    /\ req.left.fields[2].type = "Struct" /\ Names(req.left.fields[2].children) = <<"c">>
    /\ req.right.fields[2].type = "Struct" /\ Names(req.right.fields[2].children) = <<"d">>
    /\ result.status = "Ok"
    /\ Names(result.batch.fields) = <<"a", "b", "e">>
    /\ Names(result.batch.fields[2].children) = <<"c", "d">>
    /\ result.batch.columns[2].columns[2].origin = "right"

\* ------------------------------------- the per-batch reads, step by step
\* The most per-batch reads of one request and the most processors.
MaxReads == 6
MaxCpus == 2

\* A buffer as wide for read_range as for take.
buffer_size_of_take(op, cpus) == cpus * 4

\* The argument of buffered: num_cpus::get() in read_range and
\* num_cpus::get() * 4 in take.
buffer_size(op, cpus) == IF op = "read_range" THEN cpus ELSE cpus * 4

\* The stream of a request that has started none of its reads: `next` reads
\* were started, `in_flight` have not completed, `queued` have completed and
\* wait for the reads before them, `yielded` were handed on in order.
NoStream == [next |-> 0, in_flight |-> {}, queued |-> {}, yielded |-> 0,
             status |-> "Running"]

\* read_range or take reaches its stream of n per-batch reads, of which
\* those of `fails` will return an error.
StartReads ==
    /\ Idle
    /\ \E op \in {"read_range", "take"}, cpus \in 1..MaxCpus, n \in 0..MaxReads :
       \E fails \in SUBSET (1..n) :
           /\ Cardinality(fails) <= 1
           /\ req' = [op |-> op, cpus |-> cpus, n |-> n, fails |-> fails]
           /\ result' = NoStream
           /\ UNCHANGED <<reader, with_row_id>>

Running == req.op \in {"read_range", "take"} /\ result.status = "Running"

\* Buffered::poll_next, first half: while fewer than `max` futures are in
\* the queue the next read_batch of the stream is started.
SpawnRead ==
    /\ Running
    /\ result.next < req.n
    /\ Cardinality(result.in_flight) + Cardinality(result.queued)
           < buffer_size(req.op, req.cpus)
    /\ result' = [result EXCEPT !.next = @ + 1, !.in_flight = @ \cup {result.next + 1}]
    /\ UNCHANGED <<reader, with_row_id, req>>

\* One read_batch in flight completes; its output waits in the queue.
CompleteRead ==
    /\ Running
    /\ \E k \in result.in_flight :
           result' = [result EXCEPT !.in_flight = @ \ {k}, !.queued = @ \cup {k}]
    /\ UNCHANGED <<reader, with_row_id, req>>

\* Buffered::poll_next, second half, into try_collect: the output of the
\* next read in stream order is handed on; an error ends the request and
\* drops the stream with the reads still in flight.
YieldRead ==
    /\ Running
    /\ result.yielded + 1 \in result.queued
    /\ result' = IF result.yielded + 1 \in req.fails
                 THEN [result EXCEPT !.status = "IO", !.in_flight = {}, !.queued = {}]
                 ELSE [result EXCEPT !.yielded = @ + 1, !.queued = @ \ {result.yielded + 1}]
    /\ UNCHANGED <<reader, with_row_id, req>>

\* The stream has ended and every output was handed on: try_collect returns.
CollectReads ==
    /\ Running
    /\ result.next = req.n
    /\ result.yielded = req.n
    /\ result' = [result EXCEPT !.status = "Ok"]
    /\ UNCHANGED <<reader, with_row_id, req>>

ReturnReads ==
    /\ req.op \in {"read_range", "take"}
    /\ result.status # "Running"
    /\ req' = NoReq
    /\ result' = Err("none", 0)
    /\ UNCHANGED <<reader, with_row_id>>

NextBuffered ==
    StartReads \/ SpawnRead \/ CompleteRead \/ YieldRead \/ CollectReads \/ ReturnReads

\* The executor polls the stream while it can make progress and every read
\* in flight completes in the end.
SpecBuffered ==
    /\ InitLogicalType
    /\ [][NextBuffered]_vars
    /\ WF_vars(SpawnRead) /\ WF_vars(CompleteRead) /\ WF_vars(YieldRead)
    /\ WF_vars(CollectReads)

\* ------------------------------------------------------------------- C27
\* The bound the claim states: the hardware concurrency for read_range and
\* four times that for take.
InFlightBound == IF req.op = "read_range" THEN req.cpus ELSE 4 * req.cpus

\* C27: at most N per-batch reads are in flight during read_range and at
\* most 4 x N during take; with that many in flight a further read starts
\* only after one has completed; and when no read fails every per-batch read
\* of the request is started and completed in the end.
C27_BoundedFanOut ==
    /\ [](Running => Cardinality(result.in_flight) <= InFlightBound)
    /\ [][(Running /\ Cardinality(result.in_flight) = InFlightBound)
              => result'.next = result.next]_<<req, result>>
    /\ (Running /\ req.fails = {})
           ~> (result.status = "Ok" /\ result.next = req.n /\ result.yielded = req.n)

\* Five reads in read_range on one processor: four were started one after
\* the other, each after the one before completed, and the last is in flight.
C27_Witness ==
    /\ Running
    /\ req.op = "read_range" /\ req.cpus = 1 /\ req.n = 5 /\ req.fails = {}
    /\ result.next = 5
    /\ result.in_flight = {5}
    /\ result.yielded = 4

\* ------------------------------------------------------------------- C28
\* The tail window of the file of the last request: its last 64 KiB, or all
\* of it.
TailWindow == IF req.file.size < PREFETCH_SIZE THEN req.file.size ELSE PREFETCH_SIZE

\* The last request read a file of 16 bytes or more that ends with MAGIC and
\* records a manifest position within the file.
ReachesManifestRegion ==
    /\ req.op = "read_manifest"
    /\ req.file.size >= 16
    /\ req.file.magic
    /\ req.file.manifest_pos <= req.file.size

\* C28: with S the file size and T = min(S, 64 KiB): when S - manifest_pos
\* <= T only the window is read and the manifest region is its last
\* S - manifest_pos bytes; otherwise exactly one more range,
\* [manifest_pos, S - T), is read and, put before the window, gives the bytes
\* [manifest_pos, S) without gap or overlap.
C28_ManifestRegion ==
    ReachesManifestRegion =>
        LET S      == req.file.size
            T      == TailWindow
            pos    == req.file.manifest_pos
            region == manifest_buf(S, pos)
        IN  /\ result.reads = region.reads
            /\ region.reads[1] = <<S - T, S>>
            /\ IF S - pos <= T
               THEN Len(region.reads) = 1
               ELSE /\ Len(region.reads) = 2
                    /\ region.reads[2] = <<pos, S - T>>
            /\ region.buf = (IF pos = S THEN <<>> ELSE <<<<pos, S>>>>)

\* A manifest longer than the window behind a prefix: two reads.
C28_Witness ==
    /\ ReachesManifestRegion
    /\ req.file.manifest_pos > 0
    /\ req.file.size - req.file.manifest_pos > TailWindow
    /\ Len(result.reads) = 2
    /\ result.reads[2] = <<req.file.manifest_pos, req.file.size - PREFETCH_SIZE>>

\* ------------------------------------------- the readers of the data types
\* DataTypeExt::is_fixed_stride over arrow's data types.
DataType_is_fixed_stride(dt) ==
    dt.kind \in {"Boolean", "UInt8", "UInt16", "UInt32", "UInt64", "Int8", "Int16",
                 "Int32", "Int64", "Float16", "Float32", "Float64", "Decimal",
                 "FixedSizeList", "FixedSizeBinary", "Duration", "Timestamp",
                 "Date32", "Date64", "Time32", "Time64"}

\* DataTypeExt::byte_width: the width in bytes, or the panic of its last arm.
RECURSIVE byte_width(_)
byte_width(dt) ==
    LET times(s, w) == IF w.status = "Ok" THEN [status |-> "Ok", val |-> s * w.val] ELSE w
        width(n) == [status |-> "Ok", val |-> n]
    IN  CASE dt.kind \in {"Int8", "UInt8"} -> width(1)
          [] dt.kind \in {"Int16", "UInt16", "Float16"} -> width(2)
          [] dt.kind \in {"Int32", "UInt32", "Float32", "Date32", "Time32"} -> width(4)
          [] dt.kind \in {"Int64", "UInt64", "Float64", "Date64", "Time64",
                          "Timestamp", "Duration"} -> width(8)
          [] dt.kind = "Decimal" -> width(dt.bits \div 8)
          [] dt.kind = "FixedSizeBinary" -> width(dt.len)
          [] dt.kind = "FixedSizeList" -> times(dt.len, byte_width(dt.elem.data_type))
          [] OTHER -> [status |-> "Panic", val |-> 0]

\* The reader read_array hands a field of the data type to.
read_array_reader(dt) ==
    IF DataType_is_fixed_stride(dt) THEN "_read_fixed_stride_array"
    ELSE CASE dt.kind = "Null" -> "read_null_array"
           [] dt.kind \in {"Utf8", "LargeUtf8", "Binary", "LargeBinary"} -> "read_binary_array"
           [] dt.kind = "Struct" -> "read_struct_array"
           [] dt.kind = "Dictionary" -> "read_dictionary_array"
           [] dt.kind \in {"List", "LargeList"} -> "read_list_array"
           [] OTHER -> "unimplemented"

\* ------------------------------------------------------------------- C29
\* C29: every data type is_fixed_stride classifies as fixed-stride has a
\* byte_width, so that the fixed-stride reader never reaches byte_width's
\* abort, and every data type the logical-type codec decodes is handed by
\* read_array to a reader, not to its unimplemented branch.
C29_EveryTypeHasAReader ==
    /\ (req.op = "encode" /\ DataType_is_fixed_stride(req.dt))
           => byte_width(req.dt).status = "Ok"
    /\ (req.op \in {"round_trip", "decode"} /\ result.status = "Ok")
           => /\ read_array_reader(result.dt) # "unimplemented"
              /\ DataType_is_fixed_stride(result.dt) => byte_width(result.dt).status = "Ok"

\* ------------------------------------------------------------------- C30
\* The file rows a read_range or take request asks for, in request order.
RequestedRows ==
    IF req.op = "read_range" THEN Interval(req.range[1], req.range[2]) ELSE req.indices

\* The batch ends in the _rowid column of the given file rows, after the
\* columns of the projection.
EndsInRowIds(batch, schema, rows) ==
    /\ batch.schema = Append(ArrowSchema(schema), RowIdField)
    /\ Len(batch.columns) = Len(schema) + 1
    /\ batch.columns[Len(batch.columns)].type = "UInt64"
    /\ batch.columns[Len(batch.columns)].values =
           [k \in 1..Len(rows) |-> RowIdOf(fragment_id, rows[k])]

\* C30: with with_row_id set, the batch read_range or take returns has the
\* columns of the underlying read_batch results: those of the projection and,
\* last, _rowid, holding the row ids of the returned rows in order; for
\* requests of one batch and of several, and for take, which concatenates
\* under the projection's schema, a take of rows of the file succeeds.
C30_RowIdsThroughConcat ==
    (with_row_id /\ req.op \in {"read_range", "take"}) =>
        /\ result.status = "Ok" => EndsInRowIds(result.batch, req.projection, RequestedRows)
        /\ (req.op = "take" /\ TakeInFile) => result.status = "Ok"
====
